---- MODULE Spec2Model ----
(***************************************************************************)
(* vibe-check: the installed-file ledger (file_tracker.rs), the fragment   *)
(* merge engine (template_engine.rs), the update orchestrators             *)
(* (template_engine_v1.rs, template_engine_v2.rs), the update command on a *)
(* manifest (template_manager/update.rs, bom.rs) and the remove and purge  *)
(* commands (template_manager/remove.rs, purge.rs), modelled as state      *)
(* machines over a small file system.                                      *)
(*                                                                         *)
(* Text is a sequence of tokens.  The long literals of the source are one  *)
(* token each: "M" is TEMPLATE_MARKER, "NL" is a line feed, "SP" a blank,  *)
(* "T_<category>" the insertion point "<!-- {category} -->".               *)
(*                                                                         *)
(* A path is a sequence of components; an absolute path starts with "/".   *)
(***************************************************************************)
EXTENDS Naturals, Sequences, FiniteSets, TLC

VARIABLES
    fs,          \* absolute file path -> content | NoFile | Unreadable
    dirs,        \* set of absolute directory paths that exist
    metadata,    \* FileTracker.metadata: key -> FileMetadata (the in-memory ledger)
    persisted,   \* installed_files.json: [state: absent | truncated | unreadable | valid, map: the JSON object it holds]
    tk,          \* the FileTracker call just made, the ledger before it and its outcome
                 \* (observation; NoCall once the file system has changed again)
    rec,         \* path -> key and content of its last record_installation made while the
                 \* file existed, with the digest of that content (history; key None: none)
    mg,          \* the merge engine's input and the main document it produced
    store,       \* the template store: main template, fragments, direct-copy files (after resolution)
    pc,          \* where the update run is: idle | main | copy | prompt | saving, or how it ended
    ret,         \* what update returned: none | Ok | Err
    run,         \* the running update's options and what it collected
    idx,         \* position of the direct-file loop in files_to_copy
    skipped_files,
    written,     \* the targets this run wrote (history)
    prompts,     \* the number of conflict prompts this run issued (history)
    log,         \* the direct-file loop's last decision (observation)
    mainlog,     \* what the run did with the main document (observation)
    merged_doc,  \* the main document on disk is the output of a merge, untouched since (history)
    snap,        \* file system and persisted ledger when the run started (history)
    prev,        \* the previous run, when this run repeats it with no user edit between (history)
    runs,        \* number of update runs started
    cl,          \* the update command just issued on a manifest, or the pattern just
                 \* resolved, and its outcome (observation)
    rm           \* the manifest of the workspace and the remove, purge or customization
                 \* test just made on it, with the state before it (observation)

(***************************************************************************)
(* Values                                                                  *)
(***************************************************************************)
NoFile == <<"NoFile">>
Unreadable == <<"Unreadable">>   \* the path exists but reading it fails (a directory, no permission)
ErrIo == <<"ErrIo">>             \* an Err(..) of std::io, where a text, digest or path is expected
ErrStatus == "Err"               \* an Err(..) where a FileStatus is expected
None == <<"None">>               \* Option::None, where a path or a text is expected
NoName == "None"                 \* Option::None, where a string is expected

Cwd == <<"/", "ws">>

(***************************************************************************)
(* std::path and std::fs, as far as the ledger uses them                   *)
(***************************************************************************)
IsAbsolute(p) == Len(p) > 0 /\ p[1] = "/"

\* the components other than "."
NotCurDir(c) == c # "."

\* the location a path names: a relative path is taken from the current directory
Absolute(p) == IF IsAbsolute(p) THEN p ELSE Cwd \o SelectSeq(p, NotCurDir)

\* Path::parent: None for the root and the empty path, else the path without
\* its last component (the empty path "" for a bare file name)
parent(p) == IF Len(p) = 0 \/ p = <<"/">> THEN None ELSE SubSeq(p, 1, Len(p) - 1)

\* Path::file_name
file_name(p) == IF Len(p) = 0 \/ p = <<"/">> THEN NoName ELSE p[Len(p)]

IsFile(f, p) == Absolute(p) \in DOMAIN f /\ f[Absolute(p)] # NoFile

\* Path::exists; the empty path names nothing
exists(f, d, p) == Len(p) > 0 /\ (IsFile(f, p) \/ Absolute(p) \in d)

\* fs::canonicalize: the absolute path of an existing file or directory, else an error
canonicalize(f, d, p) == IF exists(f, d, p) THEN Absolute(p) ELSE ErrIo

\* fs::read / fs::read_to_string
read(f, p) ==
    IF ~IsFile(f, p) \/ f[Absolute(p)] = Unreadable THEN ErrIo ELSE f[Absolute(p)]

\* all proper ancestors of an absolute path (fs::create_dir_all of its parent)
Ancestors(a) == {SubSeq(a, 1, n) : n \in 1..(Len(a) - 1)}

(***************************************************************************)
(* FileTracker (file_tracker.rs)                                           *)
(***************************************************************************)
\* SHA-256 of a content: injective on the contents of the model
Sha(c) == <<"sha256">> \o c

FileMetadata(sha, version, lang, category) ==
    [original_sha |-> sha, template_version |-> version, lang |-> lang, category |-> category]

resolve_absolute_path(f, d, p) ==
    IF canonicalize(f, d, p) # ErrIo
    THEN canonicalize(f, d, p)
    ELSE IF /\ parent(p) # None
            /\ canonicalize(f, d, parent(p)) # ErrIo
            /\ file_name(p) # NoName
         THEN canonicalize(f, d, parent(p)) \o <<file_name(p)>>
         ELSE p

calculate_sha256(f, p) == IF read(f, p) = ErrIo THEN ErrIo ELSE Sha(read(f, p))

\* HashMap::insert
MapInsert(m, k, v) == [x \in DOMAIN m \cup {k} |-> IF x = k THEN v ELSE m[x]]

\* HashMap::remove
MapRemove(m, k) == [x \in DOMAIN m \ {k} |-> m[x]]

record_installation(md, f, d, p, sha, version, lang, category) ==
    MapInsert(md, resolve_absolute_path(f, d, p), FileMetadata(sha, version, lang, category))

\* a slip in the order of the checks: existence is tested before the lookup
check_modification_exists_first(md, f, d, p) ==
    LET absolute_path == resolve_absolute_path(f, d, p) IN
    IF ~exists(f, d, p) THEN "Deleted"
    ELSE IF absolute_path \notin DOMAIN md THEN "NotTracked"
    ELSE IF calculate_sha256(f, p) = ErrIo THEN ErrStatus
    ELSE IF calculate_sha256(f, p) = md[absolute_path].original_sha THEN "Unmodified"
    ELSE "Modified"

check_modification(md, f, d, p) ==
    LET absolute_path == resolve_absolute_path(f, d, p) IN
    IF absolute_path \notin DOMAIN md THEN "NotTracked"
    ELSE IF ~exists(f, d, p) THEN "Deleted"
    ELSE IF calculate_sha256(f, p) = ErrIo THEN ErrStatus
    ELSE IF calculate_sha256(f, p) = md[absolute_path].original_sha THEN "Unmodified"
    ELSE "Modified"

remove_entry(md, f, d, p) == MapRemove(md, resolve_absolute_path(f, d, p))

\* Option<&FileMetadata>: the set holding the entry, or the empty set
get_metadata(md, f, d, p) ==
    IF resolve_absolute_path(f, d, p) \in DOMAIN md
    THEN {md[resolve_absolute_path(f, d, p)]}
    ELSE {}

\* HashMap::new
EmptyMap == <<>>

\* a slip: the entries of every workspace count
path_starts_with_any_base(path, base) == Len(path) > 0

\* Path::starts_with: base is a prefix of the path, component by component
path_starts_with(path, base) ==
    Len(path) >= Len(base) /\ SubSeq(path, 1, Len(base)) = base

\* FileTracker::get_installed_language_for_workspace: the values it can return
\* (the entries are visited in the order of the hash map); NoName is None
get_installed_language_for_workspace(md, f, d, workspace) ==
    LET workspace_canon == canonicalize(f, d, workspace)
        found == {md[k].lang : k \in {x \in DOMAIN md : /\ md[x].lang # NoName
                                                        /\ path_starts_with(x, workspace_canon)}}
    IN  IF workspace_canon = ErrIo \/ found = {} THEN {NoName} ELSE found

\* serde_json: Option<String> is null or a string, u32 a number
json_string(x) == <<"string", x>>

json_number(n) == <<"number", n>>

json_null == <<"null">>

\* a slip: a missing language is written as the empty string
to_value_none_as_empty(meta) ==
    [original_sha |-> json_string(meta.original_sha),
     template_version |-> json_number(meta.template_version),
     lang |-> IF meta.lang = NoName THEN json_string("") ELSE json_string(meta.lang),
     category |-> json_string(meta.category)]

\* Serialize for FileMetadata
to_value(meta) ==
    [original_sha |-> json_string(meta.original_sha),
     template_version |-> json_number(meta.template_version),
     lang |-> IF meta.lang = NoName THEN json_null ELSE json_string(meta.lang),
     category |-> json_string(meta.category)]

\* serde_json::to_string_pretty of the ledger: one object, a member for each key
to_string_pretty(md) == {[key |-> k, value |-> to_value(md[k])] : k \in DOMAIN md}

\* Deserialize for FileMetadata accepts the member
well_typed(member) ==
    /\ member.value.original_sha[1] = "string"
    /\ member.value.template_version[1] = "number"
    /\ member.value.lang[1] \in {"null", "string"}
    /\ member.value.category[1] = "string"

from_value(value) ==
    FileMetadata(value.original_sha[2], value.template_version[2],
                 IF value.lang = json_null THEN NoName ELSE value.lang[2],
                 value.category[2])

\* serde_json::from_str(..).unwrap_or_else(|_| HashMap::new())
from_str(contents) ==
    IF \A member \in contents : well_typed(member)
    THEN [k \in {member.key : member \in contents} |->
             from_value((CHOOSE member \in contents : member.key = k).value)]
    ELSE EmptyMap

\* installed_files.json does not exist
NoLedger == [state |-> "absent", map |-> {}]

\* installed_files.json holds no JSON document (an interrupted write)
Truncated == [state |-> "truncated", map |-> {}]

\* installed_files.json holds this JSON object
Valid(contents) == [state |-> "valid", map |-> contents]

\* FileTracker::new, a Result: no file -> empty; a file that does not parse ->
\* empty; a file that cannot be read -> the error of fs::read_to_string
new(pers) ==
    IF pers.state = "valid" THEN [ok |-> TRUE, metadata |-> from_str(pers.map)]
    ELSE IF pers.state = "unreadable" THEN [ok |-> FALSE, metadata |-> EmptyMap]
    ELSE [ok |-> TRUE, metadata |-> EmptyMap]

\* how fs::write of the ledger can end
SaveOutcomes == {"written", "refused", "torn"}

\* FileTracker::save: the result and the file it leaves
save(md, pers, outcome) ==
    IF outcome = "written" THEN [ok |-> TRUE, persisted |-> Valid(to_string_pretty(md))]
    ELSE IF outcome = "refused" THEN [ok |-> FALSE, persisted |-> pers]
    ELSE [ok |-> FALSE, persisted |-> Truncated]

(***************************************************************************)
(* str, as far as the merge engine uses it                                 *)
(***************************************************************************)
TEMPLATE_MARKER == <<"M">>

NL == "NL"

Whitespace == {"NL", "SP"}

MatchAt(s, pat, i) == i + Len(pat) - 1 <= Len(s) /\ SubSeq(s, i, i + Len(pat) - 1) = pat

\* str::contains
contains(s, pat) == \E i \in 1..(Len(s) + 1) : MatchAt(s, pat, i)

RECURSIVE ReplaceFrom(_, _, _, _)
ReplaceFrom(s, pat, to, i) ==
    IF i > Len(s) THEN <<>>
    ELSE IF MatchAt(s, pat, i) THEN to \o ReplaceFrom(s, pat, to, i + Len(pat))
    ELSE <<s[i]>> \o ReplaceFrom(s, pat, to, i + 1)

\* str::replace: every non-overlapping match, left to right (patterns are not empty)
replace(s, pat, to) == ReplaceFrom(s, pat, to, 1)

RECURSIVE trim_start(_)
trim_start(s) == IF s # <<>> /\ Head(s) \in Whitespace THEN trim_start(Tail(s)) ELSE s

RECURSIVE trim_end(_)
trim_end(s) ==
    IF s # <<>> /\ s[Len(s)] \in Whitespace THEN trim_end(SubSeq(s, 1, Len(s) - 1)) ELSE s

\* str::trim
trim(s) == trim_end(trim_start(s))

\* [T]::join
RECURSIVE join(_, _)
join(list, sep) ==
    IF list = <<>> THEN <<>>
    ELSE IF Len(list) = 1 THEN list[1]
    ELSE list[1] \o sep \o join(Tail(list), sep)

\* the sequences that enumerate a finite set once each
Perms(S) == {q \in [1..Cardinality(S) -> S] : \A i, j \in 1..Cardinality(S) : q[i] = q[j] => i = j}

(***************************************************************************)
(* The merge engine (template_engine.rs, merge_fragments)                  *)
(***************************************************************************)
Categories == {"mission", "principles", "languages", "integration"}

\* format!("<!-- {{{}}} -->", category)
insertion_point(category) == <<"T_" \o category>>

\* "## Mission Statement\n\n" followed by the trimmed override
formatted_mission(mission_content) == <<"H_mission", NL, NL>> \o trim(mission_content)

\* the entry of one category: the texts of its fragments, in the order of the list
RECURSIVE ContentsOf(_, _)
ContentsOf(fragments, category) ==
    IF fragments = <<>> THEN <<>>
    ELSE (IF Head(fragments).category = category THEN <<Head(fragments).content>> ELSE <<>>)
            \o ContentsOf(Tail(fragments), category)

\* fragments_by_category after the grouping: its keys ...
CategoryKeys(fragments, no_lang, mission) ==
    {fragments[i].category : i \in 1..Len(fragments)}
        \cup (IF no_lang THEN {"languages"} ELSE {})
        \cup (IF mission # None THEN {"mission"} ELSE {})

\* a slip: the override takes the place of the mission fragments
CategoryContents_override_replaces(fragments, mission, category) ==
    IF mission # None /\ category = "mission" THEN <<formatted_mission(mission)>>
    ELSE ContentsOf(fragments, category)

\* ... and the value of a key
CategoryContents(fragments, mission, category) ==
    ContentsOf(fragments, category)
        \o (IF mission # None /\ category = "mission" THEN <<formatted_mission(mission)>> ELSE <<>>)

RECURSIVE MapTrim(_)
MapTrim(list) == IF list = <<>> THEN <<>> ELSE <<trim(Head(list))>> \o MapTrim(Tail(list))

combined_content(contents) == join(MapTrim(contents), <<NL, NL>>)

\* a slip: the replacement leaves the insertion point out
MergeCategory_drops_token(main_content, category, contents) ==
    IF contains(main_content, insertion_point(category))
    THEN replace(main_content, insertion_point(category),
                 <<NL, NL>> \o combined_content(contents))
    ELSE main_content

\* one turn of "for (category, contents) in fragments_by_category"
MergeCategory(main_content, category, contents) ==
    IF contains(main_content, insertion_point(category))
    THEN replace(main_content, insertion_point(category),
                 insertion_point(category) \o <<NL, NL>> \o combined_content(contents))
    ELSE main_content

\* the loop over the map, in the order the map happens to iterate in
RECURSIVE MergeLoop(_, _, _, _)
MergeLoop(main_content, order, fragments, mission) ==
    IF order = <<>> THEN main_content
    ELSE MergeLoop(MergeCategory(main_content, Head(order),
                                 CategoryContents(fragments, mission, Head(order))),
                   Tail(order), fragments, mission)

\* main_content.replace(&marker_with_newline, "")
strip_marker(source) == replace(source, TEMPLATE_MARKER \o <<NL>>, <<>>)

\* the text merge_fragments writes to the target; order enumerates CategoryKeys
merge_fragments(source, fragments, no_lang, mission, order) ==
    MergeLoop(strip_marker(source), order, fragments, mission)

\* is_file_customized, on the content of an existing file
is_customized(content) == ~contains(content, TEMPLATE_MARKER)

(***************************************************************************)
(* The manifest (bom.rs), the placeholder resolvers and the collection of  *)
(* the files of an update (template_manager/update.rs and the first half   *)
(* of TemplateEngineV1::update / TemplateEngineV2::update).                *)
(*                                                                         *)
(* A target pattern of the manifest is a text whose tokens are the         *)
(* placeholders "$workspace", "$userprofile", "$instructions", the         *)
(* separators "/" and "\\" and pieces of file names; pieces that follow    *)
(* each other with no separator between them form one path component.      *)
(***************************************************************************)
MaxPatternLen == 3

MaxEntries == 1

MaxVersion == 3

Home == <<"/", "home">>

\* str::starts_with
starts_with(s, pat) == MatchAt(s, pat, 1)

\* str::trim_start_matches with a one-character pattern
RECURSIVE trim_start_matches(_, _)
trim_start_matches(s, c) ==
    IF s # <<>> /\ Head(s) = c THEN trim_start_matches(Tail(s), c) ELSE s

\* the components of a path text, cur being the component read so far
RECURSIVE Components(_, _)
Components(text, cur) ==
    IF text = <<>> THEN (IF cur = "" THEN <<>> ELSE <<cur>>)
    ELSE IF Head(text) = "/"
         THEN (IF cur = "" THEN <<>> ELSE <<cur>>) \o Components(Tail(text), "")
    ELSE Components(Tail(text), cur \o Head(text))

\* PathBuf::from: repeated and trailing separators name no component, and "." is
\* a component only as the first one of a relative path
PathBuf_from(text) ==
    (IF starts_with(text, <<"/">>) THEN <<"/">>
     ELSE IF Components(text, "") # <<>> /\ Head(Components(text, "")) = "." THEN <<".">>
     ELSE <<>>)
        \o SelectSeq(Components(text, ""), NotCurDir)

\* Path::join: an absolute argument replaces the base
path_join(base, text) ==
    IF starts_with(text, <<"/">>) THEN PathBuf_from(text)
    ELSE base \o SelectSeq(Components(text, ""), NotCurDir)

\* Path::to_str: the text of a path
to_str(p) ==
    LET names == IF IsAbsolute(p) THEN Tail(p) ELSE p
    IN  (IF IsAbsolute(p) THEN <<"/">> ELSE <<>>)
            \o join([i \in 1..Len(names) |-> <<names[i]>>], <<"/">>)

\* template_engine.rs, resolve_placeholder: the placeholder is a prefix, the
\* leading separators of the rest are dropped
resolve_placeholder(path, workspace, userprofile) ==
    IF starts_with(path, <<"$workspace">>)
    THEN path_join(workspace, trim_start_matches(trim_start_matches(Tail(path), "/"), "\\"))
    ELSE IF starts_with(path, <<"$userprofile">>)
    THEN path_join(userprofile, trim_start_matches(trim_start_matches(Tail(path), "/"), "\\"))
    ELSE PathBuf_from(path)

\* TemplateEngineV1::resolve_placeholder: str::replace of both placeholders
V1_resolve_placeholder(path, workspace, userprofile) ==
    PathBuf_from(replace(replace(path, <<"$workspace">>, to_str(workspace)),
                         <<"$userprofile">>, to_str(userprofile)))

\* TemplateEngineV2::resolve_placeholder: str::replace of both placeholders
V2_resolve_placeholder(path, workspace, userprofile) ==
    PathBuf_from(replace(replace(path, <<"$workspace">>, to_str(workspace)),
                         <<"$userprofile">>, to_str(userprofile)))

\* "#[serde(default = "default_version")]"
default_version == 1

\* the version field of templates.yml: absent, or a number
VersionFields ==
    {[present |-> FALSE, value |-> 0]} \cup {[present |-> TRUE, value |-> v] : v \in 1..MaxVersion}

\* a slip: a manifest without a version field is taken for the current format
config_version_default_current(field) == IF field.present THEN field.value ELSE 2

\* TemplateConfig.version after deserialization
config_version(field) == IF field.present THEN field.value ELSE default_version

\* the files of the template store (config_dir)
Downloaded == {"s.md", "AGENTS.md"}

\* the targets of the manifest's entries: a fragment, a file of the workspace,
\* a file of the workspace under a directory named by the fragment placeholder,
\* a file of the user's home directory, and a target with no placeholder
Targets ==
    {<<"$instructions", "/", "f.md">>,
     <<"$workspace", "/", "f.md">>,
     <<"$workspace", "/", "$instructions", "/", "f.md">>,
     <<"$userprofile", "/", "f.md">>,
     <<"d", "/", "g.md">>}

\* the FileMapping entries a section may hold; the source of the last one was
\* not downloaded
Mappings ==
    {[source |-> "s.md", target |-> t] : t \in Targets}
        \cup {[source |-> "gone.md", target |-> <<"$workspace", "/", "f.md">>]}

Sections == {"principles", "mission", "languages", "integration", "instructions", "prompts"}

\* section -> its entries, at most MaxEntries sections holding one entry
SectionEntries ==
    {e \in [Sections -> {<<>>} \cup {<<m>> : m \in Mappings}] :
        Cardinality({s \in Sections : e[s] # <<>>}) <= MaxEntries}

\* the manifests: main is Option<MainConfig> (its source is downloaded), languages
\* a map from a name to its files, integration the files of the one integration
\* of the map, agents Option<HashMap<String, AgentConfig>>
Configs ==
    {[version |-> v,
      main |-> main,
      principles |-> e["principles"],
      mission |-> e["mission"],
      languages |-> [k \in (IF lang THEN {"rust"} ELSE {}) |-> e["languages"]],
      integration |-> e["integration"],
      agents |-> [some |-> agents # "absent",
                  map |-> [k \in (IF agents = "claude" THEN {"claude"} ELSE {}) |->
                              [instructions |-> e["instructions"], prompts |-> e["prompts"]]]]] :
        v \in VersionFields, main \in BOOLEAN, lang \in BOOLEAN,
        agents \in {"absent", "empty", "claude"}, e \in SectionEntries}

\* --lang: not given, a key of the manifest, the key in another case
LangOptions == {NoName, "rust", "Rust"}

\* --agent: not given, an agent of the manifest, an unknown one
AgentOptions == {NoName, "claude", "ghost"}

NoCollect == [op |-> "none"]

\* a slip: a target in the user's home directory is listed
resolve_workspace_path_keeps_userprofile(target) ==
    IF contains(target, <<"$instructions">>) THEN None
    ELSE IF contains(target, <<"$workspace">>)
    THEN PathBuf_from(replace(target, <<"$workspace">>, <<".">>))
    ELSE PathBuf_from(target)

\* BillOfMaterials::resolve_workspace_path: None for a target that contains the
\* user-profile or the fragment placeholder, else the target with every
\* workspace placeholder replaced by "."
resolve_workspace_path(target) ==
    IF contains(target, <<"$userprofile">>) THEN None
    ELSE IF contains(target, <<"$instructions">>) THEN None
    ELSE IF contains(target, <<"$workspace">>)
    THEN PathBuf_from(replace(target, <<"$workspace">>, <<".">>))
    ELSE PathBuf_from(target)

\* "for mapping in .. { if let Some(path) = resolve_workspace_path(..) { file_paths.push(path) } }"
RECURSIVE push_workspace_paths(_, _)
push_workspace_paths(file_paths, mappings) ==
    IF mappings = <<>> THEN file_paths
    ELSE push_workspace_paths(
            IF resolve_workspace_path(Head(mappings).target) = None THEN file_paths
            ELSE Append(file_paths, resolve_workspace_path(Head(mappings).target)),
            Tail(mappings))

\* the file_paths of one agent: its instructions, then its prompts
agent_file_paths(agent_config) ==
    push_workspace_paths(push_workspace_paths(<<>>, agent_config.instructions),
                         agent_config.prompts)

\* BillOfMaterials::from_config: agent name -> file paths, for the agents that
\* have a path
from_config(config) ==
    [k \in {a \in DOMAIN config.agents.map : agent_file_paths(config.agents.map[a]) # <<>>} |->
        agent_file_paths(config.agents.map[k])]

\* BillOfMaterials::has_agent
has_agent(bom, agent_name) == agent_name \in DOMAIN bom

\* BillOfMaterials::get_agent_files, of an agent the BoM has
get_agent_files(bom, agent_name) == bom[agent_name]

\* files_to_copy and fragments while they are collected
NoFiles == [fragments |-> <<>>, files_to_copy |-> <<>>]

\* the resolver an engine calls on a target: its own
engine_resolve_placeholder(version, path) ==
    IF version = 1 THEN V1_resolve_placeholder(path, Cwd, Home)
    ELSE V2_resolve_placeholder(path, Cwd, Home)

\* "files_to_copy.push((source_path, target_path))"; section and pattern are the
\* manifest section the entry is from and the target the path was resolved
\* from (history)
push_file(acc, entry, version, section) ==
    [acc EXCEPT !.files_to_copy =
        Append(@, [source |-> entry.source, section |-> section, pattern |-> entry.target,
                   target |-> engine_resolve_placeholder(version, entry.target)])]

\* the closure process_entry of both engines
process_entry(acc, entry, category, version) ==
    IF entry.source \notin Downloaded THEN acc
    ELSE IF starts_with(entry.target, <<"$instructions">>)
    THEN [acc EXCEPT !.fragments = Append(@, [source |-> entry.source, category |-> category])]
    ELSE push_file(acc, entry, version, category)

\* "for entry in entries { process_entry(..) }"
RECURSIVE process_entries(_, _, _, _)
process_entries(acc, entries, category, version) ==
    IF entries = <<>> THEN acc
    ELSE process_entries(process_entry(acc, Head(entries), category, version),
                         Tail(entries), category, version)

\* the loops over an agent's instructions and prompts: no test of the target
RECURSIVE push_agent_files(_, _, _, _)
push_agent_files(acc, entries, version, section) ==
    IF entries = <<>> THEN acc
    ELSE push_agent_files(IF Head(entries).source \in Downloaded
                          THEN push_file(acc, Head(entries), version, section) ELSE acc,
                          Tail(entries), version, section)

\* update returns Err before anything is scheduled; engine is the arm of
\* "match version" that was taken (none: update returned before it)
Failed(engine, error) ==
    [result |-> "Err", error |-> error, engine |-> engine, fragments |-> <<>>,
     files_to_copy |-> <<>>, main_template |-> FALSE, warned |-> FALSE, ledger_lang |-> NoName]

\* the collection is complete: what the rest of update materializes, and the
\* language its ledger entries carry (NoName: none)
Collected(engine, acc, main, warned, ledger_lang) ==
    [result |-> "Ok", error |-> "", engine |-> engine, fragments |-> acc.fragments,
     files_to_copy |-> acc.files_to_copy, main_template |-> main, warned |-> warned,
     ledger_lang |-> ledger_lang]

\* TemplateEngineV1::update(lang, agent, ..), up to "No templates found to copy";
\* v1 keeps no ledger
V1_update(config, lang, agent) ==
    LET principles == process_entries(NoFiles, config.principles, "principles", 1)
        mission == process_entries(principles, config.mission, "mission", 1)
        languages == IF lang \in DOMAIN config.languages
                     THEN process_entries(mission, config.languages[lang], "languages", 1)
                     ELSE mission
        integration == process_entries(languages, config.integration, "integration", 1)
    IN  IF ~config.agents.some THEN Failed("v1", "agents section required")
        ELSE IF agent \notin DOMAIN config.agents.map THEN Failed("v1", "agent not found")
        ELSE Collected("v1",
                       push_agent_files(
                           push_agent_files(integration, config.agents.map[agent].instructions,
                                            1, "instructions"),
                           config.agents.map[agent].prompts, 1, "prompts"),
                       config.main, FALSE, NoName)

\* a slip: v2 tolerates a language that is not in the manifest, as v1 does
V2_update_tolerates_language(config, lang, agent, mission) ==
    LET principles == process_entries(NoFiles, config.principles, "principles", 2)
        missions == IF mission = None
                    THEN process_entries(principles, config.mission, "mission", 2)
                    ELSE principles
        languages == IF lang \in DOMAIN config.languages
                     THEN process_entries(missions, config.languages[lang], "languages", 2)
                     ELSE missions
        integration == process_entries(languages, config.integration, "integration", 2)
        known == agent # NoName /\ config.agents.some /\ agent \in DOMAIN config.agents.map
    IN  Collected("v2",
                  IF known THEN push_agent_files(integration, config.agents.map[agent].prompts, 2, "prompts")
                  ELSE integration,
                  config.main,
                  agent # NoName /\ config.agents.some /\ ~known,
                  lang)

\* TemplateEngineV2::update(lang, agent, mission, ..), up to "No templates found
\* to copy"; every ledger entry of the run is recorded with Some(lang)
V2_update(config, lang, agent, mission) ==
    LET principles == process_entries(NoFiles, config.principles, "principles", 2)
        missions == IF mission = None
                    THEN process_entries(principles, config.mission, "mission", 2)
                    ELSE principles
        languages == process_entries(missions, config.languages[lang], "languages", 2)
        integration == process_entries(languages, config.integration, "integration", 2)
        known == agent # NoName /\ config.agents.some /\ agent \in DOMAIN config.agents.map
    IN  IF lang \notin DOMAIN config.languages THEN Failed("v2", "language not found")
        ELSE Collected("v2",
                       IF known THEN push_agent_files(integration, config.agents.map[agent].prompts, 2, "prompts")
                       ELSE integration,
                       config.main,
                       agent # NoName /\ config.agents.some /\ ~known,
                       lang)

\* update.rs, "let from_tracker": a ledger that fails to load counts as none
from_tracker(pers, f, d) ==
    IF ~new(pers).ok THEN {NoName}
    ELSE get_installed_language_for_workspace(new(pers).metadata, f, d, Cwd)

\* update.rs, "let lang_resolved": None with --no-lang, else the language given,
\* else the installed one, else the first key of the manifest (first; NoName when
\* the manifest has no language), else an error
lang_resolved(lang, no_lang, installed, first) ==
    IF no_lang THEN NoName
    ELSE IF lang # NoName THEN lang
    ELSE IF installed # NoName THEN installed
    ELSE IF first # NoName THEN first
    ELSE ErrStatus

\* "lang_resolved.as_deref().unwrap_or("")"
lang_for_engine(resolved) == IF resolved = NoName THEN "" ELSE resolved

\* TemplateManager::update: the engines of src/ take no no_lang argument, the
\* flag reaches them as the empty language
update(config, lang, agent, no_lang, mission, installed, first) ==
    LET resolved == lang_resolved(lang, no_lang, installed, first)
        version == config_version(config.version)
    IN  IF resolved = ErrStatus THEN Failed("none", "no languages defined")
        ELSE IF version = 1
        THEN IF agent = NoName THEN Failed("v1", "agent required")
             ELSE V1_update(config, lang_for_engine(resolved), agent)
        ELSE IF version = 2 THEN V2_update(config, lang_for_engine(resolved), agent, mission)
        ELSE Failed("none", "unsupported version")

(***************************************************************************)
(* remove and purge (template_manager/remove.rs, purge.rs, utils.rs)       *)
(***************************************************************************)
\* Result<bool>
OkBool(b) == [ok |-> TRUE, value |-> b]

ErrBool == [ok |-> FALSE, value |-> FALSE]

\* a slip: a document that does not exist counts as customized
is_file_customized_absent_true(f, d, local_path) ==
    IF ~exists(f, d, local_path) THEN OkBool(TRUE)
    ELSE IF read(f, local_path) = ErrIo THEN ErrBool
    ELSE OkBool(~contains(read(f, local_path), TEMPLATE_MARKER))

\* template_engine.rs, is_file_customized
is_file_customized(f, d, local_path) ==
    IF ~exists(f, d, local_path) THEN OkBool(FALSE)
    ELSE IF read(f, local_path) = ErrIo THEN ErrBool
    ELSE OkBool(~contains(read(f, local_path), TEMPLATE_MARKER))

\* TemplateEngineV2::is_file_customized: the same test with the marker as a literal
V2_is_file_customized(f, d, local_path) ==
    IF ~exists(f, d, local_path) THEN OkBool(FALSE)
    ELSE IF read(f, local_path) = ErrIo THEN ErrBool
    ELSE OkBool(~contains(read(f, local_path), <<"M">>))

\* the directory holds no file and no directory
IsEmptyDir(f, d, a) ==
    /\ a \in d
    /\ \A x \in DOMAIN f : f[x] # NoFile => a \notin Ancestors(x)
    /\ \A y \in d : a \notin Ancestors(y)

\* fs::remove_dir, its error ignored: the directories left. It fails on the empty
\* path, on ".", on the root, on a missing and on a non-empty directory
remove_dir(f, d, p) ==
    IF p = <<>> \/ p[Len(p)] = "." \/ Absolute(p) = <<"/">> \/ ~IsEmptyDir(f, d, Absolute(p))
    THEN d
    ELSE d \ {Absolute(p)}

\* utils.rs, remove_file_and_cleanup_parents: the file, then its parent and its
\* grandparent when they are empty
remove_file_and_cleanup_parents(f, d, path) ==
    IF ~IsFile(f, path) THEN [ok |-> FALSE, fs |-> f, dirs |-> d]
    ELSE LET f1 == [f EXCEPT ![Absolute(path)] = NoFile]
             d1 == IF parent(path) # None THEN remove_dir(f1, d, parent(path)) ELSE d
             d2 == IF parent(path) # None /\ parent(parent(path)) # None
                   THEN remove_dir(f1, d1, parent(parent(path)))
                   ELSE d1
         IN  [ok |-> TRUE, fs |-> f1, dirs |-> d2]

\* "for file in &files_to_remove": delete, and on success remove the ledger entry
RECURSIVE remove_files(_, _, _, _)
remove_files(files, f, d, md) ==
    IF files = <<>> THEN [fs |-> f, dirs |-> d, metadata |-> md]
    ELSE LET r == remove_file_and_cleanup_parents(f, d, Head(files))
         IN  remove_files(Tail(files), r.fs, r.dirs,
                          IF r.ok THEN remove_entry(md, r.fs, r.dirs, Head(files)) ELSE md)

\* the paths of the model in the order of Vec::sort
SortedPaths == <<<<".", "a.md">>, <<".", "d", "b.md">>, <<"a.md">>, <<"d", "b.md">>>>

\* "agent_files.iter().filter(|f| f.exists())"
RECURSIVE existing(_, _, _)
existing(files, f, d) ==
    IF files = <<>> THEN <<>>
    ELSE (IF exists(f, d, Head(files)) THEN <<Head(files)>> ELSE <<>>) \o existing(Tail(files), f, d)

\* the existing files of every agent of the BoM, after sort and dedup
all_files(bom, f, d) ==
    LET InSomeList(p) == exists(f, d, p) /\ \E a \in DOMAIN bom : \E i \in 1..Len(bom[a]) : bom[a][i] = p
    IN  SelectSeq(SortedPaths, InSomeList)

\* what remove and purge return and leave behind
Outcome(result, how, files, f, d, md, pers) ==
    [ret |-> result, how |-> how, files |-> files, fs |-> f, dirs |-> d, metadata |-> md,
     persisted |-> pers]

\* the end of remove and purge: "file_tracker.save()?"
Saved(how, files, after, pers, outcome) ==
    LET saved == save(after.metadata, pers, outcome)
    IN  Outcome(IF saved.ok THEN "Ok" ELSE "Err", IF saved.ok THEN how ELSE "save",
                files, after.fs, after.dirs, after.metadata, saved.persisted)

\* a slip: the empty answer counts as a confirmation
confirm_action_default_yes(input) ==
    IF input = ErrIo THEN ErrBool
    ELSE OkBool(trim(input) \in {<<"y">>, <<"Y">>, <<>>})

\* utils.rs, confirm_action: input is the line read from stdin, or the error of
\* reading it
confirm_action(input) ==
    IF input = ErrIo THEN ErrBool
    ELSE OkBool(trim(input) \in {<<"y">>, <<"Y">>})

\* templates.yml does not exist in the data directory
NoManifest == [version |-> 0]

NoRemove == [op |-> "none", config |-> NoManifest]

\* TemplateManager::remove; input is the line read at the confirmation, outcome
\* how the write of the ledger ends
remove(config, agent, force, dry_run, input, outcome, f, d, pers) ==
    LET bom == from_config(config)
        files_to_remove == IF agent # NoName THEN existing(get_agent_files(bom, agent), f, d)
                           ELSE all_files(bom, f, d)
        after == remove_files(files_to_remove, f, d, new(pers).metadata)
    IN  IF config = NoManifest
        THEN Outcome("Err", "no templates", <<>>, f, d, EmptyMap, pers)
        ELSE IF agent # NoName /\ ~has_agent(bom, agent)
        THEN Outcome("Err", "agent not found", <<>>, f, d, EmptyMap, pers)
        ELSE IF agent = NoName /\ DOMAIN bom = {}
        THEN Outcome("Ok", "no agents", <<>>, f, d, EmptyMap, pers)
        ELSE IF files_to_remove = <<>>
        THEN Outcome("Ok", "no files", <<>>, f, d, EmptyMap, pers)
        ELSE IF dry_run
        THEN Outcome("Ok", "dry run", files_to_remove, f, d, EmptyMap, pers)
        ELSE IF ~force /\ ~confirm_action(input).ok
        THEN Outcome("Err", "stdin", files_to_remove, f, d, EmptyMap, pers)
        ELSE IF ~force /\ ~confirm_action(input).value
        THEN Outcome("Ok", "cancelled", files_to_remove, f, d, EmptyMap, pers)
        ELSE IF ~new(pers).ok
        THEN Outcome("Err", "ledger", files_to_remove, f, d, EmptyMap, pers)
        ELSE Saved("removed", files_to_remove, after, pers, outcome)

\* TemplateManager::purge
purge(config, force, dry_run, input, outcome, f, d, pers) ==
    LET agents_md_path == Cwd \o <<"AGENTS.md">>
        customized == is_file_customized(f, d, agents_md_path)
        agents_md_skipped == exists(f, d, agents_md_path) /\ customized.value /\ ~force
        files_to_purge == (IF config = NoManifest THEN <<>> ELSE all_files(from_config(config), f, d))
                              \o (IF exists(f, d, agents_md_path) /\ ~agents_md_skipped
                                  THEN <<agents_md_path>> ELSE <<>>)
        after == remove_files(files_to_purge, f, d, new(pers).metadata)
    IN  IF exists(f, d, agents_md_path) /\ ~customized.ok
        THEN Outcome("Err", "unreadable", <<>>, f, d, EmptyMap, pers)
        ELSE IF files_to_purge = <<>> /\ ~agents_md_skipped
        THEN Outcome("Ok", "no files", <<>>, f, d, EmptyMap, pers)
        ELSE IF dry_run
        THEN Outcome("Ok", "dry run", files_to_purge, f, d, EmptyMap, pers)
        ELSE IF ~force /\ ~confirm_action(input).ok
        THEN Outcome("Err", "stdin", files_to_purge, f, d, EmptyMap, pers)
        ELSE IF ~force /\ ~confirm_action(input).value
        THEN Outcome("Ok", "cancelled", files_to_purge, f, d, EmptyMap, pers)
        ELSE IF ~new(pers).ok
        THEN Outcome("Err", "ledger", files_to_purge, f, d, EmptyMap, pers)
        ELSE Saved("purged", files_to_purge, after, pers, outcome)

(***************************************************************************)
(* The update orchestrators (template_engine_v1.rs, template_engine_v2.rs) *)
(***************************************************************************)
MaxRuns == 2

\* the resolved targets: the main document and two direct-copy files
MainTarget == <<"/", "ws", "AGENTS.md">>

UFiles == {MainTarget, <<"/", "ws", "a.md">>, <<"/", "ws", "d", "b.md">>}

\* the files the user edits, creates or deletes between runs: the main document
\* and the last direct-copy file
UserFiles == {MainTarget, <<"/", "ws", "d", "b.md">>}

\* what a user writes into a file of the workspace
UserText == <<"u">>

\* main templates of the store: with the marker line first, with the marker as
\* the last line and no line feed after it; None: no main template
MainTemplates ==
    {None,
     <<"M", "NL", "T_principles", "T_mission">>,
     <<"T_principles", "T_mission", "NL", "M">>}

\* the fragment entries of the store, in manifest order
FragmentLists ==
    {<<>>,
     <<[content |-> <<"p", "T_mission">>, category |-> "principles"],
       [content |-> <<"m">>, category |-> "mission"]>>}

\* the direct-copy entries of the store, in manifest order
FileLists ==
    {<<>>,
     <<[source |-> <<"x">>, target |-> <<"/", "ws", "a.md">>],
       [source |-> <<"y">>, target |-> <<"/", "ws", "d", "b.md">>]>>}

Missions == {None, <<"w">>}

Lang == "rust"

NoRun == [version |-> 0, force |-> FALSE, dry_run |-> FALSE, mission |-> None,
          fragments |-> <<>>, skip_agents_md |-> FALSE]

NoLog == [target |-> None, source |-> None, before |-> None, existed |-> FALSE, status |-> "",
          prompted |-> FALSE, answer |-> "", copied |-> FALSE]

NoMainLog == [how |-> "none", existed |-> FALSE, customized |-> FALSE]

NoSnap == [fs |-> <<>>, dirs |-> {}, persisted |-> NoLedger]

NoPrev == [same |-> FALSE, fs |-> <<>>]

Running == {"main", "copy", "prompt", "saving"}

Returned == {"done", "cancelled", "dry_run", "nothing", "error"}

Ended == Returned \cup {"crashed"}

runVars == <<pc, ret, run, idx, skipped_files, written, prompts, log, mainlog, snap, prev>>

updateVars == <<store, runVars, merged_doc, runs, cl, rm>>

\* no update run is in progress and nothing of the last one is remembered
NoRunState ==
    /\ pc = "idle"
    /\ ret = "none"
    /\ run = NoRun
    /\ idx = 0
    /\ skipped_files = <<>>
    /\ written = {}
    /\ prompts = 0
    /\ log = NoLog
    /\ mainlog = NoMainLog
    /\ snap = NoSnap
    /\ prev = NoPrev

\* the update variables of a specification that runs no update
UpdateUnused ==
    /\ store = [main |-> None, fragments |-> <<>>, files |-> <<>>]
    /\ NoRunState
    /\ merged_doc = FALSE
    /\ runs = 0
    /\ cl = NoCollect
    /\ rm = NoRemove

\* the user's change starts a new history: nothing of the last run is remembered
ForgetRun ==
    /\ pc' = "idle"
    /\ ret' = "none"
    /\ run' = NoRun
    /\ idx' = 0
    /\ skipped_files' = <<>>
    /\ written' = {}
    /\ prompts' = 0
    /\ log' = NoLog
    /\ mainlog' = NoMainLog
    /\ snap' = NoSnap
    /\ prev' = NoPrev

Init ==
    /\ tk = [op |-> "none", path |-> None, key |-> None, result |-> "", before |-> EmptyMap]
    /\ rec = <<>>
    /\ mg = [source |-> None, fragments |-> <<>>, no_lang |-> FALSE, mission |-> None,
             via |-> "none", stored |-> <<>>, how |-> "none", out |-> None]
    /\ fs = [a \in UFiles |-> NoFile]
    /\ dirs = {<<"/">>, Cwd}
    /\ metadata = EmptyMap
    /\ persisted = NoLedger
    /\ \E main \in MainTemplates, fragments \in FragmentLists, files \in FileLists :
          store = [main |-> main, fragments |-> fragments, files |-> files]
    /\ NoRunState
    /\ merged_doc = FALSE
    /\ runs = 0
    /\ cl = NoCollect
    /\ rm = NoRemove

\* "mission.is_none() == true &&": v2 loads no stored mission fragment when an
\* override is given; v1 takes no override and loads every fragment
RECURSIVE WithoutCategory(_, _)
WithoutCategory(fragments, category) ==
    IF fragments = <<>> THEN <<>>
    ELSE (IF Head(fragments).category = category THEN <<>> ELSE <<Head(fragments)>>)
            \o WithoutCategory(Tail(fragments), category)

collect_fragments(version, fragments, mission) ==
    IF version = 2 /\ mission # None THEN WithoutCategory(fragments, "mission") ELSE fragments

\* "main_target.exists() && self.is_file_customized(main_target)?"
skip_agents_md(f, d, main) ==
    main # None /\ exists(f, d, MainTarget) /\ is_customized(read(f, MainTarget))

\* a slip: the dry-run test is missing
after_collect_no_dry_run(files, main, dry_run) ==
    IF files = <<>> /\ main = None THEN "nothing" ELSE "main"

\* where update goes once the files are collected: the early returns
after_collect(files, main, dry_run) ==
    IF files = <<>> /\ main = None THEN "nothing"
    ELSE IF dry_run THEN "dry_run"
    ELSE "main"

\* TemplateManager::update -> TemplateEngineV1::update / TemplateEngineV2::update,
\* up to the dry-run return
Start(version, force, dry_run, mission) ==
    /\ pc \in Ended \cup {"idle"}
    /\ runs < MaxRuns
    /\ runs' = runs + 1
    /\ run' = [version |-> version, force |-> force, dry_run |-> dry_run,
               mission |-> IF version = 2 THEN mission ELSE None,
               fragments |-> collect_fragments(version, store.fragments, mission),
               skip_agents_md |-> skip_agents_md(fs, dirs, store.main)]
    /\ metadata' = IF version = 2 THEN new(persisted).metadata ELSE EmptyMap
    /\ pc' = after_collect(store.files, store.main, dry_run)
    /\ ret' = IF pc' \in Returned THEN "Ok" ELSE "none"
    /\ idx' = 1
    /\ skipped_files' = <<>>
    /\ written' = {}
    /\ prompts' = 0
    /\ log' = NoLog
    /\ mainlog' = NoMainLog
    /\ snap' = [fs |-> fs, dirs |-> dirs, persisted |-> persisted]
    /\ prev' = IF pc \in {"done", "dry_run", "nothing"}
                  /\ run.version = version /\ run.force = force /\ run.dry_run = dry_run
                  /\ run.mission = run'.mission
               THEN [same |-> TRUE, fs |-> fs]
               ELSE NoPrev
    /\ UNCHANGED <<fs, dirs, persisted, store, merged_doc, tk, rec, mg, cl, rm>>

\* the categories of the v2 loop, on the paths of the model: a target under a
\* ".git.." component is "integration", one that names the agent is "agent"
category_of(target, agent) ==
    IF \E i \in 1..Len(target) : target[i] \in {".git", ".github", ".gitignore"} THEN "integration"
    ELSE IF agent # NoName /\ \E i \in 1..Len(target) : target[i] \in {agent, "." \o agent} THEN "agent"
    ELSE "language"

\* what the run does with the main document
main_action(main, skip, force, fragments, mission) ==
    IF main = None THEN "absent"
    ELSE IF skip /\ ~force THEN "skipped"
    ELSE IF fragments # <<>> \/ mission # None THEN "merged"
    ELSE "copied"

\* "Handle main AGENTS.md": skip it, merge the fragments into it or copy it, and
\* (v2) record it
HandleMain(order) ==
    LET how == main_action(store.main, run.skip_agents_md, run.force, run.fragments, run.mission)
        text == IF how = "merged"
                THEN merge_fragments(store.main, run.fragments, FALSE, run.mission, order)
                ELSE store.main
        fs2 == [fs EXCEPT ![MainTarget] = text]
        dirs2 == dirs \cup Ancestors(MainTarget)
    IN
    /\ pc = "main"
    /\ order \in Perms(CategoryKeys(run.fragments, FALSE, run.mission))
    /\ mainlog' = [how |-> how, existed |-> exists(fs, dirs, MainTarget),
                   customized |-> run.skip_agents_md]
    /\ IF how \in {"merged", "copied"}
       THEN /\ fs' = fs2
            /\ dirs' = dirs2
            /\ written' = written \cup {MainTarget}
            /\ merged_doc' = (how = "merged")
            /\ metadata' = IF run.version = 2
                           THEN record_installation(metadata, fs2, dirs2, MainTarget,
                                    calculate_sha256(fs2, MainTarget), run.version, Lang, "main")
                           ELSE metadata
       ELSE UNCHANGED <<fs, dirs, written, merged_doc, metadata>>
    /\ pc' = "copy"
    /\ UNCHANGED <<persisted, store, ret, run, idx, skipped_files, prompts, log, snap, prev, runs,
                   tk, rec, mg, cl, rm>>

\* a slip: a modified file is overwritten without asking
should_copy_modified_unasked(version, existed, force, status) ==
    IF version = 1 \/ ~existed \/ force THEN "copy"
    ELSE IF status \in {"Unmodified", "Deleted", "Modified"} THEN "copy"
    ELSE "prompt"

\* "let should_copy = ..": copy at once, or ask the user first; v1 asks nothing
should_copy(version, existed, force, status) ==
    IF version = 1 \/ ~existed \/ force THEN "copy"
    ELSE IF status \in {"Unmodified", "Deleted"} THEN "copy"
    ELSE "prompt"

\* copy_file_with_mkdir and (v2) record_installation of one direct file
CopyAndRecord(entry) ==
    LET fs2 == [fs EXCEPT ![entry.target] = entry.source]
        dirs2 == dirs \cup Ancestors(entry.target)
    IN
    /\ fs' = fs2
    /\ dirs' = dirs2
    /\ written' = written \cup {entry.target}
    /\ merged_doc' = (merged_doc /\ entry.target # MainTarget)
    /\ metadata' = IF run.version = 2
                   THEN record_installation(metadata, fs2, dirs2, entry.target, Sha(entry.source),
                                            run.version, Lang, category_of(entry.target, NoName))
                   ELSE metadata

\* one turn of "for (source, target) in &files_to_copy", up to the prompt if the
\* file needs one
CopyStep ==
    LET entry == store.files[idx]
        existed == exists(fs, dirs, entry.target)
        status == check_modification(metadata, fs, dirs, entry.target)
        decision == should_copy(run.version, existed, run.force, status)
    IN
    /\ pc = "copy"
    /\ idx <= Len(store.files)
    /\ log' = [target |-> entry.target, source |-> entry.source, before |-> fs[entry.target],
               existed |-> existed, status |-> status, prompted |-> (decision = "prompt"),
               answer |-> "", copied |-> (decision = "copy")]
    /\ IF decision = "copy"
       THEN /\ CopyAndRecord(entry)
            /\ idx' = idx + 1
            /\ UNCHANGED <<pc, prompts>>
       ELSE /\ pc' = "prompt"
            /\ prompts' = prompts + 1
            /\ UNCHANGED <<fs, dirs, written, merged_doc, metadata, idx>>
    /\ UNCHANGED <<persisted, store, ret, run, skipped_files, mainlog, snap, prev, runs, tk, rec, mg, cl, rm>>

\* a slip: skip ends the run like quit
after_skip_returns(response) ==
    IF response \in {"Quit", "Skip"} THEN "return" ELSE "continue"

\* a slip: quit leaves the loop and the ledger is saved
after_quit_saves(response) ==
    IF response = "Quit" THEN "break" ELSE "continue"

\* where the loop goes after the answer: on with the next file, or out of update
after_response(response) ==
    IF response = "Quit" THEN "return" ELSE "continue"

\* the answer to prompt_file_modification: Skip, Overwrite or Quit (the prompt
\* repeats until it gets one of them)
Answer(response) ==
    LET entry == store.files[idx] IN
    /\ pc = "prompt"
    /\ log' = [log EXCEPT !.answer = response, !.copied = (response = "Overwrite")]
    /\ IF response = "Overwrite"
       THEN CopyAndRecord(entry)
       ELSE UNCHANGED <<fs, dirs, written, merged_doc, metadata>>
    /\ skipped_files' = IF response = "Skip" THEN Append(skipped_files, entry.target)
                        ELSE skipped_files
    /\ CASE after_response(response) = "continue" ->
                pc' = "copy" /\ idx' = idx + 1 /\ ret' = ret
         [] after_response(response) = "return" ->
                pc' = "cancelled" /\ idx' = idx /\ ret' = "Ok"
         [] OTHER ->
                pc' = "copy" /\ idx' = Len(store.files) + 1 /\ ret' = ret
    /\ UNCHANGED <<persisted, store, run, prompts, mainlog, snap, prev, runs, tk, rec, mg, cl, rm>>

\* v1: the loop is over and update returns; v1 keeps no ledger
FinishV1 ==
    /\ pc = "copy"
    /\ idx > Len(store.files)
    /\ run.version = 1
    /\ pc' = "done"
    /\ ret' = "Ok"
    /\ UNCHANGED <<fs, dirs, metadata, persisted, store, run, idx, skipped_files, written, prompts,
                   log, mainlog, merged_doc, snap, prev, runs, tk, rec, mg, cl, rm>>

\* v2: FileTracker::save, first half: fs::write creates (truncates) the file
SaveCreate ==
    /\ pc = "copy"
    /\ idx > Len(store.files)
    /\ run.version = 2
    /\ persisted' = Truncated
    /\ pc' = "saving"
    /\ UNCHANGED <<fs, dirs, metadata, store, ret, run, idx, skipped_files, written, prompts,
                   log, mainlog, merged_doc, snap, prev, runs, tk, rec, mg, cl, rm>>

\* v2: FileTracker::save, second half: the JSON text is written; update returns
SaveWrite ==
    /\ pc = "saving"
    /\ persisted' = Valid(to_string_pretty(metadata))
    /\ pc' = "done"
    /\ ret' = "Ok"
    /\ UNCHANGED <<fs, dirs, metadata, store, run, idx, skipped_files, written, prompts,
                   log, mainlog, merged_doc, snap, prev, runs, tk, rec, mg, cl, rm>>

\* a read or a write fails and "?" returns the error
IoError ==
    /\ pc \in Running
    /\ pc' = "error"
    /\ ret' = "Err"
    /\ UNCHANGED <<fs, dirs, metadata, persisted, store, run, idx, skipped_files, written, prompts,
                   log, mainlog, merged_doc, snap, prev, runs, tk, rec, mg, cl, rm>>

\* the process dies
Crash ==
    /\ pc \in Running
    /\ pc' = "crashed"
    /\ UNCHANGED <<fs, dirs, metadata, persisted, store, ret, run, idx, skipped_files, written,
                   prompts, log, mainlog, merged_doc, snap, prev, runs, tk, rec, mg, cl, rm>>

\* between runs the user edits or creates a file of the workspace
UserWrite(a) ==
    /\ pc \in Ended \cup {"idle"}
    /\ runs < MaxRuns
    /\ fs[a] # UserText
    /\ fs' = [fs EXCEPT ![a] = UserText]
    /\ dirs' = dirs \cup Ancestors(a)
    /\ merged_doc' = (merged_doc /\ a # MainTarget)
    /\ ForgetRun
    /\ UNCHANGED <<metadata, persisted, store, runs, tk, rec, mg, cl, rm>>

\* between runs the user deletes a file of the workspace
UserDelete(a) ==
    /\ pc \in Ended \cup {"idle"}
    /\ runs < MaxRuns
    /\ fs[a] # NoFile
    /\ fs' = [fs EXCEPT ![a] = NoFile]
    /\ merged_doc' = (merged_doc /\ a # MainTarget)
    /\ ForgetRun
    /\ UNCHANGED <<dirs, metadata, persisted, store, runs, tk, rec, mg, cl, rm>>

Next ==
    \/ \E version \in {1, 2}, force \in BOOLEAN, dry_run \in BOOLEAN, mission \in Missions :
          Start(version, force, dry_run, mission)
    \/ \E order \in Perms(CategoryKeys(run.fragments, FALSE, run.mission)) : HandleMain(order)
    \/ CopyStep
    \/ \E response \in {"Skip", "Overwrite", "Quit"} : Answer(response)
    \/ FinishV1
    \/ SaveCreate
    \/ SaveWrite
    \/ IoError
    \/ Crash
    \/ \E a \in UserFiles : UserWrite(a)
    \/ \E a \in UserFiles : UserDelete(a)

(***************************************************************************)
(* The ledger API called in any order on a changing file system            *)
(***************************************************************************)
\* the paths handed to the ledger: a bare file name and a file in a subdirectory
TPaths == {<<"a.md">>, <<"d", "b.md">>}

TFiles == {Absolute(p) : p \in TPaths}

\* file contents: the installed template text and a user's text
TContents == {<<"x">>, <<"u">>}

NoCall == [op |-> "none", path |-> None, key |-> None, result |-> "", before |-> EmptyMap]

NoRec == [key |-> None, content |-> None]

NoMerge == [source |-> None, fragments |-> <<>>, no_lang |-> FALSE, mission |-> None,
            via |-> "none", stored |-> <<>>, how |-> "none", out |-> None]

\* forget the history of every path whose entry (key k) is replaced or removed
Forget(r, k) == [q \in DOMAIN r |-> IF r[q].key = k THEN NoRec ELSE r[q]]

TrackerInit ==
    /\ fs = [a \in TFiles |-> NoFile]
    /\ dirs = {<<"/">>, Cwd}
    /\ metadata = EmptyMap
    /\ persisted = NoLedger
    /\ tk = NoCall
    /\ rec = [p \in TPaths |-> NoRec]
    /\ mg = NoMerge
    /\ UpdateUnused

\* fs::write by the tool or the user (parent directories are made first)
FsWrite(p, c) ==
    /\ fs' = [fs EXCEPT ![Absolute(p)] = c]
    /\ dirs' = dirs \cup Ancestors(Absolute(p))
    /\ tk' = NoCall
    /\ UNCHANGED <<metadata, persisted, rec, mg, updateVars>>

\* the file becomes unreadable (chmod)
FsProtect(p) ==
    /\ IsFile(fs, p)
    /\ fs' = [fs EXCEPT ![Absolute(p)] = Unreadable]
    /\ tk' = NoCall
    /\ UNCHANGED <<dirs, metadata, persisted, rec, mg, updateVars>>

\* fs::remove_file
FsRemove(p) ==
    /\ IsFile(fs, p)
    /\ fs' = [fs EXCEPT ![Absolute(p)] = NoFile]
    /\ tk' = NoCall
    /\ UNCHANGED <<dirs, metadata, persisted, rec, mg, updateVars>>

\* fs::remove_dir of an empty directory
FsRemoveDir(dir) ==
    /\ dir \in dirs \ {<<"/">>, Cwd}
    /\ \A a \in TFiles : fs[a] # NoFile => dir \notin Ancestors(a)
    /\ dirs' = dirs \ {dir}
    /\ tk' = NoCall
    /\ UNCHANGED <<fs, metadata, persisted, rec, mg, updateVars>>

RecordInstallation(p, sha) ==
    LET key == resolve_absolute_path(fs, dirs, p) IN
    /\ metadata' = record_installation(metadata, fs, dirs, p, sha, 2, "rust", "language")
    /\ tk' = [op |-> "record", path |-> p, key |-> key, result |-> "", before |-> metadata]
    /\ rec' = [Forget(rec, key) EXCEPT ![p] =
                  IF read(fs, p) # ErrIo /\ sha = Sha(read(fs, p))
                  THEN [key |-> key, content |-> read(fs, p)]
                  ELSE NoRec]
    /\ UNCHANGED <<fs, dirs, persisted, mg, updateVars>>

CheckModification(p) ==
    /\ tk' = [op |-> "status", path |-> p, key |-> resolve_absolute_path(fs, dirs, p),
              result |-> check_modification(metadata, fs, dirs, p), before |-> metadata]
    /\ UNCHANGED <<fs, dirs, metadata, persisted, rec, mg, updateVars>>

RemoveEntry(p) ==
    LET key == resolve_absolute_path(fs, dirs, p) IN
    /\ metadata' = remove_entry(metadata, fs, dirs, p)
    /\ tk' = [op |-> "remove", path |-> p, key |-> key, result |-> "", before |-> metadata]
    /\ rec' = Forget(rec, key)
    /\ UNCHANGED <<fs, dirs, persisted, mg, updateVars>>

GetMetadata(p) ==
    /\ tk' = [op |-> "get", path |-> p, key |-> resolve_absolute_path(fs, dirs, p),
              result |-> IF get_metadata(metadata, fs, dirs, p) = {} THEN "None" ELSE "Some",
              before |-> metadata]
    /\ UNCHANGED <<fs, dirs, metadata, persisted, rec, mg, updateVars>>

TrackerNext ==
    \/ \E p \in TPaths, c \in TContents : FsWrite(p, c)
    \/ \E p \in TPaths : FsProtect(p)
    \/ \E p \in TPaths : FsRemove(p)
    \/ \E dir \in UNION {Ancestors(a) : a \in TFiles} : FsRemoveDir(dir)
    \/ \E p \in TPaths, c \in TContents : RecordInstallation(p, Sha(c))
    \/ \E p \in TPaths : CheckModification(p)
    \/ \E p \in TPaths : RemoveEntry(p)
    \/ \E p \in TPaths : GetMetadata(p)

vars == <<fs, dirs, metadata, persisted, tk, rec, mg, updateVars>>

Spec == Init /\ [][Next]_vars

SpecTracker == TrackerInit /\ [][TrackerNext]_vars

(***************************************************************************)
(* The merge engine on every small main template and fragment list         *)
(***************************************************************************)
MaxSourceLen == 3

MaxFragments == 2

SourceAlphabet == {"M", "NL", "T_principles", "T_mission", "T_languages", "x"}

\* the sequences over S of length at most n
SeqUpTo(S, n) == UNION {[1..k -> S] : k \in 0..n}

MergeFragments ==
    {[content |-> <<"NL", "p", "SP">>, category |-> "principles"],
     [content |-> <<"m", "T_principles">>, category |-> "mission"],
     [content |-> <<"g">>, category |-> "integration"]}

MergeMissions == {None, <<"SP", "w", "NL">>}

MergeInit ==
    /\ fs = <<>>
    /\ dirs = {}
    /\ metadata = EmptyMap
    /\ persisted = NoLedger
    /\ tk = NoCall
    /\ rec = <<>>
    /\ UpdateUnused
    /\ \E source \in SeqUpTo(SourceAlphabet, MaxSourceLen),
          stored \in SeqUpTo(MergeFragments, MaxFragments),
          no_lang \in BOOLEAN, mission \in MergeMissions, via \in {"engine", "v2"} :
          /\ via = "v2" => ~no_lang
          /\ mg = [source |-> source,
                   fragments |-> IF via = "v2" THEN collect_fragments(2, stored, mission)
                                 ELSE stored,
                   no_lang |-> no_lang, mission |-> mission, via |-> via, stored |-> stored,
                   how |-> "input", out |-> None]

\* handle_main_template: there is something to merge
MergeMain(order) ==
    /\ mg.how = "input"
    /\ mg.fragments # <<>> \/ mg.mission # None
    /\ mg' = [mg EXCEPT !.how = "merged",
                        !.out = merge_fragments(mg.source, mg.fragments, mg.no_lang, mg.mission, order)]
    /\ UNCHANGED <<fs, dirs, metadata, persisted, tk, rec, updateVars>>

\* handle_main_template: nothing to merge, fs::copy
CopyMain ==
    /\ mg.how = "input"
    /\ mg.fragments = <<>> /\ mg.mission = None
    /\ mg' = [mg EXCEPT !.how = "copied", !.out = mg.source]
    /\ UNCHANGED <<fs, dirs, metadata, persisted, tk, rec, updateVars>>

MergeNext ==
    \/ \E order \in Perms(CategoryKeys(mg.fragments, mg.no_lang, mg.mission)) : MergeMain(order)
    \/ CopyMain

SpecMerge == MergeInit /\ [][MergeNext]_vars

(***************************************************************************)
(* The update command on every small manifest, and the three resolvers on  *)
(* every short pattern                                                     *)
(***************************************************************************)
PathAlphabet == {"$workspace", "$userprofile", "/", "\\", "a"}

\* another workspace, whose name begins with the name of this one
Elsewhere == <<"/", "ws2">>

\* the ledger with these languages for a.md of this workspace, d/b.md of this
\* workspace and a.md of the other one (NoName: no language; "": no entry)
LedgerOf(here, below, there) ==
    Valid(to_string_pretty(
        [k \in (IF here = "" THEN {} ELSE {Cwd \o <<"a.md">>})
                 \cup (IF below = "" THEN {} ELSE {Cwd \o <<"d", "b.md">>})
                 \cup (IF there = "" THEN {} ELSE {Elsewhere \o <<"a.md">>}) |->
            FileMetadata(Sha(<<"x">>), 2,
                         IF k = Cwd \o <<"a.md">> THEN here
                         ELSE IF k = Cwd \o <<"d", "b.md">> THEN below ELSE there,
                         "language")]))

\* the ledgers of the data directory: none, one that cannot be read, and
\* entries of this workspace and of another one, of a language of the manifest
\* ("rust") and of one that is not ("go")
CollectLedgers ==
    {NoLedger, [state |-> "unreadable", map |-> {}],
     LedgerOf("rust", "", "go"), LedgerOf(NoName, "", "go"), LedgerOf("rust", "go", "")}

CollectInit ==
    /\ fs = <<>>
    /\ dirs = {<<"/">>, Cwd, Elsewhere}
    /\ metadata = EmptyMap
    /\ persisted \in CollectLedgers
    /\ tk = NoCall
    /\ rec = <<>>
    /\ mg = NoMerge
    /\ UpdateUnused

\* TemplateManager::update on a manifest, one command in a behaviour; installed
\* is the language the ledger holds for the workspace, first the key that
\* languages.keys().next() yields
Update ==
    /\ cl.op = "none"
    /\ \E config \in Configs, lang \in LangOptions, agent \in AgentOptions, no_lang \in BOOLEAN,
          mission \in Missions, installed \in from_tracker(persisted, fs, dirs),
          first \in {NoName, "rust"} :
          \* main.rs: --lang and --no-lang exclude each other, one of --lang,
          \* --agent, --no-lang is given
          /\ ~(lang # NoName /\ no_lang)
          /\ ~(lang = NoName /\ agent = NoName /\ ~no_lang)
          \* the ledger is read for a language only when none is given
          /\ (lang # NoName \/ no_lang) => persisted \in {NoLedger, LedgerOf("rust", "go", "")}
          /\ first \in DOMAIN config.languages \/ (first = NoName /\ DOMAIN config.languages = {})
          /\ cl' = [op |-> "update", config |-> config, lang |-> lang, agent |-> agent,
                    no_lang |-> no_lang, mission |-> mission, installed |-> installed,
                    resolved |-> lang_resolved(lang, no_lang, installed, first),
                    out |-> update(config, lang, agent, no_lang, mission, installed, first)]
    /\ UNCHANGED <<fs, dirs, metadata, persisted, tk, rec, mg, store, runVars, merged_doc, runs, rm>>

\* the same pattern given to the shared resolver and to the resolver of each engine
ResolvePlaceholder ==
    /\ cl.op = "none"
    /\ persisted = NoLedger
    /\ \E path \in SeqUpTo(PathAlphabet, MaxPatternLen) :
          cl' = [op |-> "resolve", path |-> path,
                 shared |-> resolve_placeholder(path, Cwd, Home),
                 v1 |-> V1_resolve_placeholder(path, Cwd, Home),
                 v2 |-> V2_resolve_placeholder(path, Cwd, Home)]
    /\ UNCHANGED <<fs, dirs, metadata, persisted, tk, rec, mg, store, runVars, merged_doc, runs, rm>>

\* BillOfMaterials::from_config on a manifest
BuildBom ==
    /\ cl.op = "none"
    /\ persisted = NoLedger
    /\ \E config \in Configs : cl' = [op |-> "bom", config |-> config, bom |-> from_config(config)]
    /\ UNCHANGED <<fs, dirs, metadata, persisted, tk, rec, mg, store, runVars, merged_doc, runs, rm>>

CollectNext == Update \/ ResolvePlaceholder \/ BuildBom

SpecCollect == CollectInit /\ [][CollectNext]_vars

(***************************************************************************)
(* remove and purge in a workspace with installed files                    *)
(***************************************************************************)
AgentsMd == Cwd \o <<"AGENTS.md">>

\* a file of the workspace no manifest lists; it keeps the directory d in use
Bystander == Cwd \o <<"d", "k.md">>

RFiles == {AgentsMd, Bystander} \cup {Absolute(p) : p \in TPaths}

\* AGENTS.md as installed (with the marker) and as customized (without)
MainContents == {<<"M", "x">>, <<"u">>}

Mapping(target) == [source |-> "s.md", target |-> target]

\* a manifest with these agents
Manifest(agents) ==
    [version |-> 2, main |-> TRUE, principles |-> <<>>, mission |-> <<>>,
     languages |-> <<>>, integration |-> <<>>, agents |-> [some |-> TRUE, map |-> agents]]

\* the manifests of the data directory: none; targets under the workspace
\* placeholder, one of them of both agents; targets without a placeholder
RemoveConfigs ==
    {NoManifest,
     Manifest([k \in {"claude", "cursor"} |->
         IF k = "claude"
         THEN [instructions |-> <<Mapping(<<"$workspace", "/", "a.md">>)>>,
               prompts |-> <<Mapping(<<"$workspace", "/", "d", "/", "b.md">>)>>]
         ELSE [instructions |-> <<Mapping(<<"$workspace", "/", "d", "/", "b.md">>)>>,
               prompts |-> <<Mapping(<<"$userprofile", "/", "a.md">>)>>]]),
     Manifest([k \in {"claude"} |->
         [instructions |-> <<Mapping(<<"a.md">>)>>,
          prompts |-> <<Mapping(<<"d", "/", "b.md">>)>>]])}

\* the ledger an update leaves: every installed file under its canonical path
Installed(f) ==
    [a \in {x \in DOMAIN f : f[x] # NoFile /\ x # Bystander} |->
        IF a = AgentsMd THEN FileMetadata(Sha(<<"M", "x">>), 2, "rust", "main")
        ELSE FileMetadata(Sha(<<"x">>), 2, NoName, "agent")]

RemoveAgents == {NoName, "claude", "cursor", "ghost"}

\* the lines read at the confirmation, and a failing read
Inputs == {<<"y", "NL">>, <<"SP", "Y", "NL">>, <<"n", "NL">>, <<>>, ErrIo}

RemoveInit ==
    /\ fs \in [RFiles -> {NoFile, <<"x">>} \cup MainContents \cup {Unreadable}]
    /\ fs[AgentsMd] \in {NoFile, Unreadable} \cup MainContents
    /\ \A a \in RFiles \ {AgentsMd} : fs[a] \in {NoFile, <<"x">>}
    /\ dirs = {<<"/">>, Cwd} \cup UNION {Ancestors(a) : a \in {x \in RFiles : fs[x] # NoFile}}
    /\ metadata = EmptyMap
    /\ persisted \in {NoLedger, Truncated, [state |-> "unreadable", map |-> {}],
                      Valid(to_string_pretty(Installed(fs)))}
    /\ tk = NoCall
    /\ rec = <<>>
    /\ mg = NoMerge
    /\ store = [main |-> None, fragments |-> <<>>, files |-> <<>>]
    /\ NoRunState
    /\ merged_doc = FALSE
    /\ runs = 0
    /\ cl = NoCollect
    /\ \E config \in RemoveConfigs : rm = [op |-> "none", config |-> config]

StateBefore == [fs |-> fs, dirs |-> dirs, persisted |-> persisted]

\* the line is read only when the command asks, the ledger written only when the
\* command goes on
Asked(force, dry_run, input, outcome) ==
    /\ (force \/ dry_run) => input = <<>>
    /\ (dry_run \/ (~force /\ ~(confirm_action(input).ok /\ confirm_action(input).value)))
           => outcome = "written"

\* vibe-check remove, one command in a behaviour
Remove ==
    /\ rm.op = "none"
    /\ \E agent \in RemoveAgents, force \in BOOLEAN, dry_run \in BOOLEAN, input \in Inputs,
          outcome \in SaveOutcomes :
          /\ Asked(force, dry_run, input, outcome)
          /\ \E out \in {remove(rm.config, agent, force, dry_run, input, outcome, fs, dirs,
                                 persisted)} :
                 /\ fs' = out.fs
                 /\ dirs' = out.dirs
                 /\ metadata' = out.metadata
                 /\ persisted' = out.persisted
                 /\ rm' = [op |-> "remove", config |-> rm.config, agent |-> agent,
                           force |-> force, dry_run |-> dry_run, input |-> input,
                           before |-> StateBefore, ret |-> out.ret, how |-> out.how,
                           files |-> out.files]
    /\ UNCHANGED <<tk, rec, mg, store, runVars, merged_doc, runs, cl>>

\* vibe-check purge, one command in a behaviour
Purge ==
    /\ rm.op = "none"
    /\ \E force \in BOOLEAN, dry_run \in BOOLEAN, input \in Inputs, outcome \in SaveOutcomes :
          /\ Asked(force, dry_run, input, outcome)
          /\ \E out \in {purge(rm.config, force, dry_run, input, outcome, fs, dirs, persisted)} :
                 /\ fs' = out.fs
                 /\ dirs' = out.dirs
                 /\ metadata' = out.metadata
                 /\ persisted' = out.persisted
                 /\ rm' = [op |-> "purge", config |-> rm.config, agent |-> NoName,
                           force |-> force, dry_run |-> dry_run, input |-> input,
                           before |-> StateBefore, ret |-> out.ret, how |-> out.how,
                           files |-> out.files]
    /\ UNCHANGED <<tk, rec, mg, store, runVars, merged_doc, runs, cl>>

\* the customization test of a path of the workspace, by both engines
IsFileCustomized ==
    /\ rm.op = "none"
    /\ \E path \in {AgentsMd, <<"AGENTS.md">>, <<"a.md">>, <<"d">>, <<"d", "b.md">>} :
          rm' = [op |-> "customized", config |-> rm.config, path |-> path, before |-> StateBefore,
                 shared |-> is_file_customized(fs, dirs, path),
                 v2 |-> V2_is_file_customized(fs, dirs, path)]
    /\ UNCHANGED <<fs, dirs, metadata, persisted, tk, rec, mg, store, runVars, merged_doc, runs, cl>>

RemoveNext == Remove \/ Purge \/ IsFileCustomized

SpecRemove == RemoveInit /\ [][RemoveNext]_vars

(***************************************************************************)
(* The ledger file: save, load, and what can happen to the file between    *)
(***************************************************************************)
MaxVersions == 2

\* template versions and languages of the entries: Option<String> is None or a name
LedgerVersions == 1..MaxVersions

LedgerLangs == {NoName, "rust"}

\* a JSON document that is not a ledger: the digest is a number
Foreign ==
    Valid({[key |-> <<"/", "ws", "a.md">>,
            value |-> [original_sha |-> json_number(1), template_version |-> json_number(1),
                       lang |-> json_null, category |-> json_string("main")]]})

LedgerInit ==
    /\ fs = [a \in TFiles |-> <<"x">>]
    /\ dirs = {<<"/">>, Cwd} \cup UNION {Ancestors(a) : a \in TFiles}
    /\ metadata = EmptyMap
    /\ persisted = NoLedger
    /\ tk = NoCall
    /\ rec = [p \in TPaths |-> NoRec]
    /\ mg = NoMerge
    /\ UpdateUnused

\* the call of the ledger just observed
LedgerCall(op, result) ==
    [op |-> op, path |-> None, key |-> None, result |-> result, before |-> metadata,
     follows |-> [op |-> tk.op, result |-> tk.result]]

\* record_installation of a file of the workspace
Install(p, version, lang) ==
    /\ metadata' = record_installation(metadata, fs, dirs, p, calculate_sha256(fs, p), version,
                                       lang, "language")
    /\ tk' = LedgerCall("record", "")
    /\ UNCHANGED <<fs, dirs, persisted, rec, mg, updateVars>>

\* remove_entry of a file of the workspace
Uninstall(p) ==
    /\ metadata' = remove_entry(metadata, fs, dirs, p)
    /\ tk' = LedgerCall("remove", "")
    /\ UNCHANGED <<fs, dirs, persisted, rec, mg, updateVars>>

\* FileTracker::save
Save(outcome) ==
    /\ persisted' = save(metadata, persisted, outcome).persisted
    /\ tk' = LedgerCall("save", IF save(metadata, persisted, outcome).ok THEN "Ok" ELSE "Err")
    /\ UNCHANGED <<fs, dirs, metadata, rec, mg, updateVars>>

\* FileTracker::new in the next process: the ledger in memory is the one loaded
Load ==
    /\ metadata' = new(persisted).metadata
    /\ tk' = LedgerCall("new", IF new(persisted).ok THEN "Ok" ELSE "Err")
    /\ UNCHANGED <<fs, dirs, persisted, rec, mg, updateVars>>

\* the file is deleted, cut short, replaced by another document or made unreadable
Damage(file) ==
    /\ persisted # file
    /\ persisted' = file
    /\ tk' = NoCall
    /\ UNCHANGED <<fs, dirs, metadata, rec, mg, updateVars>>

LedgerNext ==
    \/ \E p \in TPaths, version \in LedgerVersions, lang \in LedgerLangs : Install(p, version, lang)
    \/ \E p \in TPaths : Uninstall(p)
    \/ \E outcome \in SaveOutcomes : Save(outcome)
    \/ Load
    \/ \E file \in {NoLedger, Truncated, Foreign, [state |-> "unreadable", map |-> {}]} :
           Damage(file)

SpecLedger == LedgerInit /\ [][LedgerNext]_vars

(***************************************************************************)
(* Claims about the ledger                                                 *)
(***************************************************************************)
FileStatus == {"NotTracked", "Unmodified", "Modified", "Deleted"}

\* the entry the ledger held for the path of the call just made, as a set
EntryBefore == IF tk.key \in DOMAIN tk.before THEN {tk.before[tk.key]} ELSE {}

OnDisk == exists(fs, dirs, tk.path)

\* C2 as claimed: status returns NotTracked when the ledger has no entry for the
\* path, Deleted when it has one and the path is not on disk, otherwise Unmodified
\* or Modified as the digest of the current content equals the stored hash or
\* not; one of the four values is returned in every ledger and file-system
\* state, and the ledger is as it was before the call.
C2_StatusAsClaimed ==
    tk.op = "status" =>
        /\ tk.result \in FileStatus
        /\ (tk.result = "NotTracked") = (EntryBefore = {})
        /\ (tk.result = "Deleted") = (EntryBefore # {} /\ ~OnDisk)
        /\ (tk.result = "Unmodified") =
               (EntryBefore # {} /\ OnDisk /\ \A e \in EntryBefore : Sha(fs[Absolute(tk.path)]) = e.original_sha)
        /\ (tk.result = "Modified") =
               (EntryBefore # {} /\ OnDisk /\ \A e \in EntryBefore : Sha(fs[Absolute(tk.path)]) # e.original_sha)
        /\ metadata = tk.before

\* C2 amended: as claimed whenever the content of a tracked path on disk can be
\* read; when it cannot, status returns an error and none of the four values.
\* The ledger is as it was before the call in every case.
C2_Status ==
    tk.op = "status" =>
        LET readable == read(fs, tk.path) # ErrIo IN
        /\ tk.result \in FileStatus \cup {ErrStatus}
        /\ (tk.result = "NotTracked") = (EntryBefore = {})
        /\ (tk.result = "Deleted") = (EntryBefore # {} /\ ~OnDisk)
        /\ (tk.result = ErrStatus) = (EntryBefore # {} /\ OnDisk /\ ~readable)
        /\ (tk.result = "Unmodified") =
               (EntryBefore # {} /\ OnDisk /\ readable
                  /\ \A e \in EntryBefore : Sha(read(fs, tk.path)) = e.original_sha)
        /\ (tk.result = "Modified") =
               (EntryBefore # {} /\ OnDisk /\ readable
                  /\ \A e \in EntryBefore : Sha(read(fs, tk.path)) # e.original_sha)
        /\ metadata = tk.before

\* a status call on a tracked path whose file was deleted
C2_Witness == tk.op = "status" /\ EntryBefore # {} /\ ~OnDisk /\ tk.result = "Deleted"

\* C3 as claimed: for a path recorded while its file existed, with the digest of
\* its content, a later status, get or remove call on the same path computes the
\* key that record used, and status is Unmodified while the content is the
\* recorded one, Modified once it differs, Deleted once the file is gone, never
\* NotTracked.
C3_LedgerFallbackChain ==
    \A p \in TPaths :
        rec[p].key # None =>
            /\ resolve_absolute_path(fs, dirs, p) = rec[p].key
            /\ (tk.op \in {"status", "get", "remove"} /\ tk.path = p) => tk.key = rec[p].key
            /\ (tk.op = "status" /\ tk.path = p) =>
                  /\ tk.result # "NotTracked"
                  /\ ~exists(fs, dirs, p) => tk.result = "Deleted"
                  /\ (read(fs, p) # ErrIo /\ read(fs, p) = rec[p].content) => tk.result = "Unmodified"
                  /\ (read(fs, p) # ErrIo /\ read(fs, p) # rec[p].content) => tk.result = "Modified"

(***************************************************************************)
(* Claims about the merge engine                                           *)
(***************************************************************************)
\* C10 as claimed: a main document the merge engine produced holds no marker,
\* whatever the source template and the fragments; a main document copied
\* verbatim holds the marker whenever its source does.
C10_MarkerInvariant ==
    /\ mg.how = "merged" => ~contains(mg.out, TEMPLATE_MARKER)
    /\ (mg.how = "copied" /\ contains(mg.source, TEMPLATE_MARKER)) => contains(mg.out, TEMPLATE_MARKER)

\* the text a category's insertion point is to be replaced with: the insertion
\* point, a blank line, the trimmed bodies in manifest order with blank lines
\* between them
Expansion(fragments, mission, category) ==
    insertion_point(category) \o <<NL, NL>>
        \o join(MapTrim(CategoryContents(fragments, mission, category)), <<NL, NL>>)

\* every insertion point of the text whose category has fragments expanded in
\* place, in one pass, and every other piece of the text kept
RECURSIVE Expanded(_, _, _)
Expanded(text, fragments, mission) ==
    IF text = <<>> THEN <<>>
    ELSE (IF \E c \in CategoryKeys(fragments, FALSE, mission) : insertion_point(c) = <<Head(text)>>
          THEN LET c == CHOOSE c \in CategoryKeys(fragments, FALSE, mission) :
                            insertion_point(c) = <<Head(text)>>
               IN Expansion(fragments, mission, c)
          ELSE <<Head(text)>>)
            \o Expanded(Tail(text), fragments, mission)

\* C11 as claimed: the merged document is the template (less its marker line)
\* with the insertion point of each category that has fragments replaced by the
\* insertion point followed by the category's trimmed bodies, in manifest order,
\* joined by a blank line, and nothing else altered
C11_TokenReplacement ==
    (mg.how = "merged" /\ ~mg.no_lang) =>
        mg.out = Expanded(strip_marker(mg.source), mg.fragments, mg.mission)

\* C12: with no-language set and no language fragment, each languages insertion
\* point of the template is in the merged document, followed by a blank line
\* and no content: taking that blank line away gives the document merged
\* without the empty languages category
C12_EmptyCategory ==
    (mg.how = "merged" /\ mg.no_lang /\ ContentsOf(mg.fragments, "languages") = <<>>) =>
        /\ contains(mg.source, insertion_point("languages"))
              => contains(mg.out, insertion_point("languages") \o <<NL, NL>>)
        /\ \E order \in Perms(CategoryKeys(mg.fragments, FALSE, mg.mission)) :
              replace(mg.out, insertion_point("languages") \o <<NL, NL>>,
                      insertion_point("languages"))
                 = MergeLoop(strip_marker(mg.source), order, mg.fragments, mg.mission)

\* C12: a template with the languages insertion point was merged with
\* no-language set
C12_Witness ==
    /\ mg.how = "merged"
    /\ mg.no_lang
    /\ contains(mg.source, insertion_point("languages"))
    /\ contains(mg.source, insertion_point("principles"))
    /\ ContentsOf(mg.fragments, "principles") # <<>>

\* text a comes before text b somewhere in text t
Before(t, a, b) ==
    \E i, j \in 1..Len(t) : i + Len(a) <= j /\ MatchAt(t, a, i) /\ MatchAt(t, b, j)

\* C13: the merge engine puts the override, trimmed and under its title, after
\* the mission fragments it was given and keeps those; the v2 orchestrator
\* gives it no stored mission fragment with an override, so the mission section
\* is the override alone; and with an override the document is merged, never
\* copied, fragments or not
C13_MissionOverride ==
    (mg.how # "input" /\ mg.mission # None) =>
        /\ mg.how = "merged"
        /\ contains(strip_marker(mg.source), insertion_point("mission")) =>
              /\ contains(mg.out, formatted_mission(mg.mission))
              /\ \A i \in 1..Len(mg.fragments) :
                    mg.fragments[i].category = "mission" =>
                        Before(mg.out, <<mg.fragments[i].content[1]>>, formatted_mission(mg.mission))
              /\ mg.via = "v2" =>
                    contains(mg.out, insertion_point("mission") \o <<NL, NL>>
                                        \o <<"H_mission", NL, NL, "w">>)
        /\ mg.via = "v2" =>
              \A i \in 1..Len(mg.stored) :
                 mg.stored[i].category = "mission" => ~contains(mg.out, <<mg.stored[i].content[1]>>)

\* C13: an override merged after a mission fragment by the engine, and alone by
\* the v2 orchestrator although the store holds a mission fragment
C13_Witness ==
    /\ mg.how = "merged"
    /\ mg.mission # None
    /\ contains(mg.source, insertion_point("mission"))
    /\ \/ mg.via = "engine" /\ ContentsOf(mg.fragments, "mission") # <<>>
       \/ mg.via = "v2" /\ ContentsOf(mg.stored, "mission") # <<>> /\ mg.fragments = <<>>

\* C14 as claimed: the merge of a category whose insertion point is not in the
\* template goes through, none of that category's fragment bodies is anywhere
\* in the merged document, and the categories whose insertion point is in the
\* template are merged all the same
C14_MissingInsertionPoint ==
    mg.how = "merged" =>
        \A i \in 1..Len(mg.fragments) :
            LET category == mg.fragments[i].category
                body == trim(mg.fragments[i].content)
            IN IF contains(strip_marker(mg.source), insertion_point(category))
               THEN contains(mg.out, insertion_point(category) \o <<NL, NL>>)
               ELSE ~contains(mg.out, body)

\* C29 (as claimed): the merged main document is the same on every run: it
\* does not depend on the order in which the categories are processed (the
\* iteration order of a hash map), also when a fragment body contains the
\* insertion point of another category or the template holds an insertion
\* point more than once.
C29_OrderIndependent ==
    mg.how = "merged" =>
        \A order \in Perms(CategoryKeys(mg.fragments, mg.no_lang, mg.mission)) :
            merge_fragments(mg.source, mg.fragments, mg.no_lang, mg.mission, order) = mg.out

(***************************************************************************)
(* Properties of update runs                                               *)
(***************************************************************************)
\* the ledger entry of target t records the content now on disk
RecordedAsInstalled(md, t) == check_modification(md, fs, dirs, t) = "Unmodified"

\* C1: in the ledger-tracking loop, a scheduled file whose target does not
\* exist, or with force set, or whose ledger status is Unmodified or Deleted, is
\* written without a prompt; with status NotTracked or Modified the user is
\* asked, and the file is written exactly if the answer is Overwrite
C1_ConflictPolicy ==
    (run.version = 2 /\ log.target # None) =>
        LET unasked == \/ ~log.existed
                       \/ run.force
                       \/ log.status \in {"Unmodified", "Deleted"}
        IN /\ unasked => (~log.prompted /\ log.copied)
           /\ (~unasked /\ log.status \in {"NotTracked", "Modified"}) =>
                 /\ log.prompted
                 /\ log.copied <=> (log.answer = "Overwrite")
           /\ log.copied => (fs[log.target] = log.source /\ log.target \in written)
           /\ ~log.copied => (fs[log.target] = log.before /\ log.target \notin written)

\* C1: a modified tracked file was prompted for and overwritten on the answer
C1_Witness ==
    /\ run.version = 2
    /\ ~run.force
    /\ log.status = "Modified"
    /\ log.prompted
    /\ log.answer = "Overwrite"
    /\ fs[log.target] = log.source

\* C4: when a run has completed, every file it wrote has a ledger entry in the
\* persisted ledger with the digest of the content on disk (status Unmodified),
\* under v1 and v2 alike
C4_WrittenIsRecorded ==
    pc = "done" => \A t \in written : RecordedAsInstalled(new(persisted).metadata, t)

\* C5: after the answer Quit the run is over and has returned success, the
\* persisted ledger is the one from before the run, the files written so far are
\* on disk, and no other file of the workspace has changed
C5_Quit ==
    log.answer = "Quit" =>
        /\ pc = "cancelled"
        /\ ret = "Ok"
        /\ persisted = snap.persisted
        /\ \A t \in written : IsFile(fs, t)
        /\ \A a \in UFiles \ written : fs[a] = snap.fs[a]
        /\ \A i \in idx..Len(store.files) : store.files[i].target \notin written

\* C5: the user quit at the second file, after the first one had been written
C5_Witness ==
    /\ pc = "cancelled"
    /\ log.answer = "Quit"
    /\ idx = 2
    /\ store.files[1].target \in written
    /\ fs[store.files[1].target] # snap.fs[store.files[1].target]

\* C6: a run that stopped before the end of the save (error, quit, crash)
\* leaves the persisted ledger exactly as it was before the run
C6_LedgerCrashSafe ==
    pc \in {"error", "cancelled", "crashed"} => persisted = snap.persisted

\* C7: the second of two runs with the same inputs and no user edit in between
\* prompts for nothing and leaves every file as the first run left it
C7_Idempotent ==
    prev.same => (prompts = 0 /\ (pc \in Returned \ {"error"} => fs = prev.fs))

\* C8: a customized main document (and every merged one is customized) is
\* neither written nor recorded without force, and is rewritten (and recorded by
\* the tracking orchestrator) with force
C8_CustomizedMainSkipped ==
    /\ merged_doc => is_customized(read(fs, MainTarget))
    /\ (mainlog.how # "none" /\ mainlog.customized /\ ~run.force) =>
          /\ mainlog.how = "skipped"
          /\ MainTarget \notin written
          /\ fs[MainTarget] = snap.fs[MainTarget]
          /\ run.version = 2 =>
                get_metadata(metadata, fs, dirs, MainTarget)
                   = get_metadata(new(snap.persisted).metadata, fs, dirs, MainTarget)
    /\ (mainlog.how # "none" /\ mainlog.customized /\ run.force) =>
          /\ mainlog.how \in {"merged", "copied"}
          /\ MainTarget \in written
          /\ run.version = 2 => RecordedAsInstalled(metadata, MainTarget)

\* C9: a dry run returns at once and has changed no file, no directory, neither
\* ledger, and has asked nothing
C9_DryRun ==
    (run.dry_run /\ pc # "idle") =>
        /\ pc \in {"dry_run", "nothing"}
        /\ ret = "Ok"
        /\ fs = snap.fs
        /\ dirs = snap.dirs
        /\ persisted = snap.persisted
        /\ metadata = (IF run.version = 2 THEN new(snap.persisted).metadata ELSE EmptyMap)
        /\ written = {}
        /\ prompts = 0

\* C9: a forced dry run over a workspace with an installed ledger and a file
\* the user has edited
C9_Witness ==
    /\ pc = "dry_run"
    /\ run.version = 2
    /\ run.force
    /\ persisted.state = "valid"
    /\ \E i \in 1..Len(store.files) : fs[store.files[i].target] = UserText

(***************************************************************************)
(* Properties of the update command: dispatch, collection, resolvers       *)
(***************************************************************************)
\* C15: no entry of any section (the agent's instructions and prompts included)
\* whose target contains the fragment placeholder is scheduled as a direct copy,
\* and no path that is scheduled to be written has the placeholder in it.
C15_NoPlaceholderCopied ==
    cl.op = "update" =>
        \A i \in 1..Len(cl.out.files_to_copy) :
            /\ ~contains(cl.out.files_to_copy[i].pattern, <<"$instructions">>)
            /\ \A j \in 1..Len(cl.out.files_to_copy[i].target) :
                    cl.out.files_to_copy[i].target[j] # "$instructions"

\* C16: with the no-language flag the language set is skipped entirely: no
\* language file or fragment is scheduled, no language lookup fails the run
\* under either engine, and the ledger entries of the run carry no language.
C16_NoLang ==
    (cl.op = "update" /\ cl.no_lang) =>
        /\ cl.out.error \notin {"language not found", "no languages defined"}
        /\ \A i \in 1..Len(cl.out.fragments) : cl.out.fragments[i].category # "languages"
        /\ \A i \in 1..Len(cl.out.files_to_copy) : cl.out.files_to_copy[i].section # "languages"
        /\ cl.out.ledger_lang = NoName

\* nothing is scheduled for writing: update returned before its first write
NothingScheduled ==
    /\ cl.out.files_to_copy = <<>>
    /\ cl.out.fragments = <<>>
    /\ ~cl.out.main_template

\* no file or fragment of a language section is scheduled
NoLanguageScheduled ==
    /\ \A i \in 1..Len(cl.out.fragments) : cl.out.fragments[i].category # "languages"
    /\ \A i \in 1..Len(cl.out.files_to_copy) : cl.out.files_to_copy[i].section # "languages"

\* the update runs without --no-lang on a language that is no key of the manifest
UnknownLanguage ==
    /\ cl.op = "update"
    /\ ~cl.no_lang
    /\ cl.resolved # ErrStatus
    /\ cl.resolved \notin DOMAIN cl.config.languages

\* C17: without the no-language flag, a selected language that is no key of the
\* manifest (keys compared case-sensitively) makes a v2 update fail before
\* anything is written, while a v1 update proceeds and schedules no language file.
C17_UnknownLanguage ==
    UnknownLanguage =>
        /\ config_version(cl.config.version) = 2 =>
               cl.out.result = "Err" /\ cl.out.error = "language not found" /\ NothingScheduled
        /\ config_version(cl.config.version) = 1 =>
               /\ cl.out.error # "language not found"
               /\ NoLanguageScheduled
               /\ (cl.config.agents.some /\ cl.agent \in DOMAIN cl.config.agents.map)
                      => cl.out.result = "Ok"

\* C17 (witness): a v2 manifest with a main document and the language "rust",
\* updated with --lang Rust, has failed
C17_Witness ==
    /\ UnknownLanguage
    /\ cl.lang = "Rust"
    /\ "rust" \in DOMAIN cl.config.languages
    /\ cl.config.main
    /\ config_version(cl.config.version) = 2
    /\ cl.out.result = "Err"

\* an agent is named that the manifest does not hold
UnknownAgent ==
    cl.agent # NoName /\ ~(cl.config.agents.some /\ cl.agent \in DOMAIN cl.config.agents.map)

\* C18: a v1 update fails, writing nothing, when no agent is given or the agent
\* is not in the manifest; a v2 update succeeds without an agent, and with an
\* agent that is not in the manifest it only warns, schedules no agent file and
\* still schedules the main document and the other files.
C18_AgentRules ==
    (cl.op = "update" /\ cl.resolved # ErrStatus) =>
        /\ (config_version(cl.config.version) = 1 /\ (cl.agent = NoName \/ UnknownAgent)) =>
               cl.out.result = "Err" /\ NothingScheduled
        /\ (config_version(cl.config.version) = 2
               /\ lang_for_engine(cl.resolved) \in DOMAIN cl.config.languages
               /\ (cl.agent = NoName \/ UnknownAgent)) =>
               /\ cl.out.result = "Ok"
               /\ \A i \in 1..Len(cl.out.files_to_copy) :
                      cl.out.files_to_copy[i].section \notin {"instructions", "prompts"}
               /\ cl.out.main_template = cl.config.main
               /\ cl.out.files_to_copy =
                      V2_update(cl.config, lang_for_engine(cl.resolved), NoName, cl.mission).files_to_copy
               /\ cl.out.fragments =
                      V2_update(cl.config, lang_for_engine(cl.resolved), NoName, cl.mission).fragments
               /\ cl.out.warned = UnknownAgent

\* the arm of "match version" and what it leads to, for a version number
Dispatched(version) ==
    IF version = 1 THEN cl.out.engine = "v1"
    ELSE IF version = 2 THEN cl.out.engine = "v2"
    ELSE /\ cl.out.engine = "none"
         /\ cl.out.result = "Err"
         /\ cl.out.error = "unsupported version"
         /\ NothingScheduled

\* C19 (as claimed): a manifest without a version field is treated as version 1;
\* versions 1 and 2 dispatch to the v1 and v2 orchestrators; every other
\* version makes update fail with the unsupported-version error, writing nothing.
C19_VersionDispatchAsClaimed ==
    cl.op = "update" =>
        Dispatched(IF cl.config.version.present THEN cl.config.version.value ELSE 1)

\* C19: the same, for every update whose language resolution has not failed
\* before the dispatch; when it has, update fails with the no-languages error
\* for every version, writing nothing.
C19_VersionDispatch ==
    cl.op = "update" =>
        IF cl.resolved # ErrStatus
        THEN Dispatched(IF cl.config.version.present THEN cl.config.version.value ELSE 1)
        ELSE /\ cl.out.engine = "none"
             /\ cl.out.result = "Err"
             /\ cl.out.error = "no languages defined"
             /\ NothingScheduled

\* C19 (witness): a manifest with no version field and a main document went to
\* the v1 orchestrator and was collected
C19_Witness ==
    /\ cl.op = "update"
    /\ ~cl.config.version.present
    /\ cl.config.main
    /\ cl.out.engine = "v1"
    /\ cl.out.result = "Ok"
    /\ cl.out.main_template

\* C20 (as claimed): the shared resolver is total and knows two prefixes: a
\* pattern that starts with the workspace placeholder resolves to the workspace
\* root joined with the rest, one that starts with the user-profile placeholder
\* to the home directory joined with the rest, every other pattern is returned
\* verbatim; the resolvers of the v1 and v2 engines return the same path as
\* the shared resolver for every pattern.
C20_Resolvers ==
    cl.op = "resolve" =>
        /\ cl.shared =
               IF starts_with(cl.path, <<"$workspace">>)
               THEN path_join(Cwd, trim_start_matches(trim_start_matches(Tail(cl.path), "/"), "\\"))
               ELSE IF starts_with(cl.path, <<"$userprofile">>)
               THEN path_join(Home, trim_start_matches(trim_start_matches(Tail(cl.path), "/"), "\\"))
               ELSE PathBuf_from(cl.path)
        /\ cl.v1 = cl.shared
        /\ cl.v2 = cl.shared

(***************************************************************************)
(* Properties of the Bill of Materials                                     *)
(***************************************************************************)
\* the entries of an agent that the Bill of Materials is to list: instructions,
\* then prompts, whose target holds neither the fragment placeholder nor the
\* user-profile placeholder
Listed(mapping) ==
    /\ ~contains(mapping.target, <<"$instructions">>)
    /\ ~contains(mapping.target, <<"$userprofile">>)

ListedEntries(agent_config) ==
    SelectSeq(agent_config.instructions \o agent_config.prompts, Listed)

\* the location a path of the Bill of Materials names when the current
\* directory is the workspace
Location(p) == Absolute(SelectSeq(p, NotCurDir))

\* the paths listed for an agent (none for an agent the BoM does not hold)
BomFiles(agent) == IF has_agent(cl.bom, agent) THEN get_agent_files(cl.bom, agent) ELSE <<>>

Skipped == {skipped_files[i] : i \in 1..Len(skipped_files)}

\* C27: when the user answers Skip at a conflict prompt, the content of the
\* target and its ledger entry (or its absence) stay as they were, the target
\* is put on the skipped list and the loop goes on with the remaining files
\* under the normal policy; at the end of the run the ledger is saved, with the
\* entries of the files the run wrote.
C27_Skip ==
    /\ log.answer = "Skip" =>
           /\ fs[log.target] = log.before
           /\ log.target \in Skipped
           /\ ~log.copied
           /\ pc # "cancelled"
           /\ log.target \notin written =>
                  get_metadata(metadata, fs, dirs, log.target)
                      = get_metadata(new(snap.persisted).metadata, fs, dirs, log.target)
    /\ (pc = "done" /\ run.version = 2 /\ Skipped # {}) =>
           /\ persisted = Valid(to_string_pretty(metadata))
           /\ \A t \in written : get_metadata(new(persisted).metadata, fs, dirs, t) # {}
           /\ \A t \in Skipped \ written :
                  /\ fs[t] = snap.fs[t]
                  /\ get_metadata(new(persisted).metadata, fs, dirs, t)
                         = get_metadata(new(snap.persisted).metadata, fs, dirs, t)

\* C27 witness: a run that skipped one file at the prompt, wrote a file that
\* comes after it, and saved the ledger
C27_Witness ==
    /\ pc = "done"
    /\ run.version = 2
    /\ Len(skipped_files) = 1
    /\ \E i \in 1..Len(store.files) :
           /\ store.files[i].target = skipped_files[1]
           /\ \E j \in (i + 1)..Len(store.files) :
                  store.files[j].target \in written \ Skipped
    /\ persisted = Valid(to_string_pretty(metadata))

(***************************************************************************)
(* Properties of remove and purge                                          *)
(***************************************************************************)
\* the ledger entry of a location, in a ledger: the set holding it, or empty
EntryAt(md, location) == IF location \in DOMAIN md THEN {md[location]} ELSE {}

\* the Bill of Materials of the command
Bom == IF rm.config = NoManifest THEN <<>> ELSE from_config(rm.config)

\* the BoM files of the agents that existed before the command
ExistedOf(agents) ==
    {file \in UNION {{Bom[a][i] : i \in 1..Len(Bom[a])} : a \in agents \cap DOMAIN Bom} :
        exists(rm.before.fs, rm.before.dirs, file)}

\* the file is gone and no ledger, in memory or persisted, holds an entry for it
GoneAndForgotten(file) ==
    /\ ~exists(fs, dirs, file)
    /\ EntryAt(metadata, Absolute(file)) = {}
    /\ EntryAt(new(persisted).metadata, Absolute(file)) = {}

\* C22 (as claimed): after remove(agent, force = true) has completed, every BoM
\* file of that agent that existed is gone and the ledger, in memory and as
\* persisted, holds no entry for it (update recorded it under its canonical
\* absolute path), also when the deletion removed the emptied parent directory;
\* AGENTS.md and its ledger entry are unchanged.
C22_RemoveForgets ==
    (rm.op = "remove" /\ rm.agent # NoName /\ rm.force /\ ~rm.dry_run /\ rm.ret = "Ok") =>
        /\ \A file \in ExistedOf({rm.agent}) : GoneAndForgotten(file)
        /\ fs[AgentsMd] = rm.before.fs[AgentsMd]
        /\ EntryAt(new(persisted).metadata, AgentsMd)
               = EntryAt(new(rm.before.persisted).metadata, AgentsMd)

\* every agent of the manifest
AllAgents == IF rm.config = NoManifest THEN {} ELSE DOMAIN rm.config.agents.map

\* AGENTS.md existed before the command and is gone after it
AgentsMdDeleted == rm.before.fs[AgentsMd] # NoFile /\ fs[AgentsMd] = NoFile

\* AGENTS.md existed before the command without the template marker
AgentsMdCustomized ==
    /\ rm.before.fs[AgentsMd] \notin {NoFile, Unreadable}
    /\ ~contains(rm.before.fs[AgentsMd], TEMPLATE_MARKER)

\* a purge that went through: not a dry run, confirmed or forced, ledger saved
Purged == rm.op = "purge" /\ rm.ret = "Ok" /\ rm.how = "purged"

\* C23 (as claimed): purge deletes AGENTS.md exactly when it exists and is not
\* customized or force is given; a customized AGENTS.md survives a purge
\* without force, while every existing BoM file of any agent is still deleted
\* and its ledger entry removed.
C23_Purge ==
    Purged =>
        /\ AgentsMdDeleted <=> (rm.before.fs[AgentsMd] # NoFile /\ (~AgentsMdCustomized \/ rm.force))
        /\ (AgentsMdCustomized /\ ~rm.force) => fs[AgentsMd] = rm.before.fs[AgentsMd]
        /\ \A file \in ExistedOf(AllAgents) : GoneAndForgotten(file)

\* C25: is_customized(path) is false when the path does not exist, otherwise
\* true exactly when the content of the file does not contain the template
\* marker (a path that exists and cannot be read yields the read error); the
\* outcome is a function of the content alone, whatever the ledger holds; the
\* shared test and the test of the v2 engine agree.
C25_IsCustomized ==
    rm.op = "customized" =>
        LET content == IF Absolute(rm.path) \in DOMAIN fs THEN fs[Absolute(rm.path)] ELSE NoFile IN
        /\ rm.shared = rm.v2
        /\ ~exists(fs, dirs, rm.path) => rm.shared = OkBool(FALSE)
        /\ (Absolute(rm.path) \in dirs \/ content = Unreadable) => ~rm.shared.ok
        /\ (Absolute(rm.path) \notin dirs /\ content \notin {NoFile, Unreadable}) =>
               rm.shared = OkBool(~contains(content, TEMPLATE_MARKER))

\* C25 witness: AGENTS.md without the marker is reported customized although the
\* ledger holds an entry for it, and a.md, which does not exist, is not
C25_Witness ==
    /\ rm.op = "customized"
    /\ rm.path = <<"AGENTS.md">>
    /\ fs[AgentsMd] = <<"u">>
    /\ EntryAt(new(persisted).metadata, AgentsMd) # {}
    /\ rm.shared = OkBool(TRUE)
    /\ fs[Absolute(<<"a.md">>)] = NoFile
    /\ is_file_customized(fs, dirs, <<"a.md">>) = OkBool(FALSE)

\* the command was a dry run, or asked and was not answered y
NotCarriedOut ==
    /\ rm.op \in {"remove", "purge"}
    /\ rm.dry_run \/ (~rm.force /\ ~(rm.input # ErrIo /\ trim(rm.input) \in {<<"y">>, <<"Y">>}))

\* no file and no directory deleted, the ledger file as it was
NothingChanged ==
    /\ fs = rm.before.fs
    /\ dirs = rm.before.dirs
    /\ persisted = rm.before.persisted

\* remove finds no templates.yml, or not the agent in the Bill of Materials
RemoveRefused ==
    /\ rm.op = "remove"
    /\ rm.config = NoManifest \/ (rm.agent # NoName /\ rm.agent \notin DOMAIN Bom)

\* purge cannot read the AGENTS.md it found
PurgeRefused == rm.op = "purge" /\ rm.before.fs[AgentsMd] = Unreadable

C24_LoadNeverFails ==
    tk.op = "new" =>
        /\ tk.result = "Ok"
        /\ persisted.state # "valid" => metadata = EmptyMap

\* C26: a load that follows a successful save yields the ledger saved: the same
\* set of paths and, for each, the same hash, template version, language and
\* category; save returns success only when the file holds the ledger, so a
\* write that failed is returned as an error.
C26_SaveLoad ==
    /\ (tk.op = "new" /\ tk.follows = [op |-> "save", result |-> "Ok"]) =>
           /\ tk.result = "Ok"
           /\ DOMAIN metadata = DOMAIN tk.before
           /\ \A k \in DOMAIN metadata :
                  /\ metadata[k].original_sha = tk.before[k].original_sha
                  /\ metadata[k].template_version = tk.before[k].template_version
                  /\ metadata[k].lang = tk.before[k].lang
                  /\ metadata[k].category = tk.before[k].category
    /\ (tk.op = "save" /\ tk.result = "Ok") =>
           (persisted.state = "valid" /\ new(persisted).metadata = metadata)

\* C26 witness: a ledger of two entries, one with a language and one without,
\* of different template versions, loaded after it was saved
C26_Witness ==
    /\ tk.op = "new"
    /\ tk.follows = [op |-> "save", result |-> "Ok"]
    /\ Cardinality(DOMAIN metadata) = 2
    /\ {metadata[k].lang : k \in DOMAIN metadata} = LedgerLangs
    /\ Cardinality({metadata[k].template_version : k \in DOMAIN metadata}) = 2

(***************************************************************************)
(* Properties of the language resolution                                   *)
(***************************************************************************)
\* the languages of the ledger entries that have one and lie under the workspace
LanguagesHere ==
    {new(persisted).metadata[k].lang :
        k \in {x \in DOMAIN new(persisted).metadata :
                  /\ new(persisted).metadata[x].lang # NoName
                  /\ Len(x) > Len(Cwd)
                  /\ \A i \in 1..Len(Cwd) : x[i] = Cwd[i]}}

\* C30: without no-lang, a language given on the command line is the one used;
\* when none is given, the language of a ledger entry that has one and whose
\* path lies under the current workspace is used (entries of other workspaces
\* never), else a language key of the manifest; when the manifest defines no
\* language either, update fails before any engine runs and writes nothing.
C30_LanguageResolution ==
    (cl.op = "update" /\ ~cl.no_lang) =>
        /\ cl.lang # NoName => cl.resolved = cl.lang
        /\ (cl.lang = NoName /\ LanguagesHere # {}) => cl.resolved \in LanguagesHere
        /\ (cl.lang = NoName /\ LanguagesHere = {} /\ DOMAIN cl.config.languages # {}) =>
               cl.resolved \in DOMAIN cl.config.languages
        /\ (cl.lang = NoName /\ LanguagesHere = {} /\ DOMAIN cl.config.languages = {}) =>
               /\ cl.resolved = ErrStatus
               /\ cl.out = Failed("none", "no languages defined")

\* C30 witness: no language given, the ledger holds "rust" for this workspace
\* and "go" for another one, and the update uses "rust"
C30_Witness ==
    /\ cl.op = "update"
    /\ cl.lang = NoName /\ ~cl.no_lang
    /\ persisted = LedgerOf("rust", "", "go")
    /\ cl.resolved = "rust"
    /\ cl.out.result = "Ok"
====
